---- MODULE Spec2Model ----
(***************************************************************************)
(* Model of the tracklist builder: the similarity comparator               *)
(* (recognizers/utils.py), the per-backend consolidation                   *)
(* (compile_tracklist of the Shazam script, process_results of the         *)
(* recognizers), the cross-backend merge and the session of                *)
(* TrackRecognitionManager (recognizers/manager.py).                       *)
(*                                                                         *)
(* Python values are modelled as follows.  A str is a sequence of          *)
(* one-character strings, so that lower(), SequenceMatcher, the f-string   *)
(* formatting and split(":") work on characters.  A dict is a function     *)
(* whose domain is its set of keys.  None is the value PyNone.  A list is  *)
(* a sequence.  A float confidence or threshold is an integer number of    *)
(* hundredths.                                                             *)
(***************************************************************************)
EXTENDS Integers, Sequences, FiniteSets, TLC

VARIABLES
    mode,                     \* which part of the program this behaviour runs
    pc,                       \* position of the running operation
    \* compile_tracklist (shazam_tracklist_identifier.py, main.py)
    results,                  \* per-chunk raw results, in chunk order
    chunk_duration,
    min_duration_seconds,
    max_interruption_chunks,
    consolidated_tracks,      \* the groups (runs) built by compile_tracklist
    final_tracklist,          \* value returned by compile_tracklist
    \* _sort_and_deduplicate_tracks (recognizers/manager.py)
    tracks,                   \* the argument, as it is when the call is made
    track_heap,               \* the track dicts, by object identity
    combined_results,         \* the returned list, of object identities
    \* format_time and are_tracks_similar (recognizers/utils.py)
    arg_seconds,              \* the argument of format_time
    formatted,                \* the str it returns
    arg_track1,               \* the arguments of are_tracks_similar
    arg_track2,
    arg_threshold,
    similar,                  \* the bool it returns
    \* TrackRecognitionManager.identify_tracks (recognizers/manager.py)
    recognizer_types,         \* the requested backends, in order
    type_index,               \* position of the loop over recognizer_types
    recognizer,               \* the recognizer the factory returned, or None
    chunks,                   \* number of chunks split_audio produced
    recognizer_results,       \* results of BaseRecognizer.identify_tracks
    retries,                  \* recursive recognize_chunk calls for the chunk
    all_results,              \* dict: recognizer type -> its list of tracks
    errors,                   \* list of error messages
    session_result,           \* the dict identify_tracks returns, None before
    \* RecognizerFactory (recognizers/factory.py)
    recognizers,              \* the class attribute _recognizers
    arg_name,                 \* the arguments of the last registry call
    arg_recognizer_class,
    \* main of the script (shazam_tracklist_identifier.py, main.py)
    chunk_count,              \* len(chunks)
    group_start,              \* the loop variable i, first chunk of the group
    task_state,               \* per chunk: the state of its recognize_chunk call
    completed,                \* chunks of the group, in the order they resolved
    pauses                    \* number of pauses made between groups

compileVars == <<results, chunk_duration, min_duration_seconds,
                 max_interruption_chunks, consolidated_tracks, final_tracklist>>

mergeVars == <<tracks, track_heap, combined_results>>

utilsVars == <<arg_seconds, formatted, arg_track1, arg_track2, arg_threshold, similar>>

sessionVars == <<recognizer_types, type_index, recognizer, chunks,
                 recognizer_results, retries, all_results, errors, session_result>>

registryVars == <<recognizers, arg_name, arg_recognizer_class>>

batchVars == <<chunk_count, group_start, task_state, completed, pauses>>

vars == <<mode, pc, compileVars, mergeVars, utilsVars, sessionVars, registryVars, batchVars>>

----------------------------------------------------------------------------
(* Bounds of the model *)

\* longest raw result sequence that is enumerated exhaustively
MaxChunks == 5

\* longest list of tracks handed to the merge
MaxMergeTracks == 3

\* format_time is applied to every number of seconds up to this one
MaxSeconds == 3700

\* most backends requested in one session
MaxBackends == 2

\* most chunks split_audio cuts the audio into
MaxSessionChunks == 2
\* most chunks the script's main is run on
MaxBatchChunks == 5

\* the interpreter's recursion limit, counted in nested recognize_chunk calls
RecursionLimit == 7

----------------------------------------------------------------------------
(* Python values *)

PyNone == [py_none |-> TRUE]

EmptyDict == [k \in {} |-> k]

\* bool(x) of a dict or None: None and the empty dict are falsy
Truthy(x) == x # PyNone /\ DOMAIN x # {}

\* x is None, for an x that may be a number, a str or a dict
IsNone(x) == ToString(x) = ToString(PyNone)

\* d.get(k, default)
Get(d, k, default) == IF k \in DOMAIN d THEN d[k] ELSE default

Max(S) == CHOOSE x \in S : \A y \in S : y <= x

Min(S) == CHOOSE x \in S : \A y \in S : x <= y

\* str.lower() on the letters the model uses
LowerChar(c) ==
    CASE c = "A" -> "a"
      [] c = "B" -> "b"
      [] c = "C" -> "c"
      [] c = "X" -> "x"
      [] c = "U" -> "u"
      [] OTHER -> c

lower(s) == [i \in DOMAIN s |-> LowerChar(s[i])]

\* the parts of the program that a behaviour does not run stay as they are
\* before any call
IdleCompile ==
    /\ results = <<>>
    /\ chunk_duration = 30
    /\ min_duration_seconds = 60
    /\ max_interruption_chunks = 2
    /\ consolidated_tracks = <<>>
    /\ final_tracklist = <<>>

IdleMerge ==
    /\ tracks = <<>>
    /\ track_heap = <<>>
    /\ combined_results = <<>>

IdleUtils ==
    /\ arg_seconds = 0
    /\ formatted = <<>>
    /\ arg_track1 = PyNone
    /\ arg_track2 = PyNone
    /\ arg_threshold = 85
    /\ similar = FALSE

IdleSession ==
    /\ recognizer_types = <<>>
    /\ type_index = 1
    /\ recognizer = PyNone
    /\ chunks = 0
    /\ recognizer_results = <<>>
    /\ retries = 0
    /\ all_results = EmptyDict
    /\ errors = <<>>
    /\ session_result = PyNone

\* RecognizerFactory._recognizers: name -> recognizer class
registered_recognizers ==
    [shazam |-> "ShazamRecognizer",
     acoustid |-> "AcoustIDRecognizer",
     executable |-> "ExecutableRecognizer",
     track_finder |-> "ExecutableRecognizer"]

\* outside the runs of the script's main
IdleBatch ==
    /\ chunk_count = 0
    /\ group_start = 0
    /\ task_state = <<>>
    /\ completed = <<>>
    /\ pauses = 0

\* the registry as the class is loaded, and outside the registry runs
IdleRegistry ==
    /\ recognizers = registered_recognizers
    /\ arg_name = PyNone
    /\ arg_recognizer_class = PyNone

----------------------------------------------------------------------------
(* difflib.SequenceMatcher(None, a, b).ratio(), without junk: the autojunk  *)
(* heuristic only acts on sequences of 200 elements or more.               *)

RECURSIVE CommonRun(_, _, _, _, _, _)
\* length of the common run of a[i..ahi-1] and b[j..bhi-1] starting at i, j
CommonRun(a, i, ahi, b, j, bhi) ==
    IF i < ahi /\ j < bhi /\ a[i] = b[j]
    THEN 1 + CommonRun(a, i + 1, ahi, b, j + 1, bhi)
    ELSE 0

\* the longest matching block in a[alo..ahi-1], b[blo..bhi-1]; of all maximal
\* blocks the one starting earliest in a, and of those the earliest in b
find_longest_match(a, alo, ahi, b, blo, bhi) ==
    LET runs == {<<i, j>> : i \in alo..(ahi - 1), j \in blo..(bhi - 1)}
        bestsize == IF runs = {} THEN 0
                    ELSE Max({CommonRun(a, p[1], ahi, b, p[2], bhi) : p \in runs})
    IN  IF bestsize = 0 THEN <<alo, blo, 0>>
        ELSE LET besti == Min({p[1] : p \in {q \in runs :
                                CommonRun(a, q[1], ahi, b, q[2], bhi) = bestsize}})
                 bestj == Min({p[2] : p \in {q \in runs : q[1] = besti /\
                                CommonRun(a, q[1], ahi, b, q[2], bhi) = bestsize}})
             IN  <<besti, bestj, bestsize>>

RECURSIVE matching_size(_, _, _, _, _, _)
\* sum of the sizes of get_matching_blocks() within the two ranges
matching_size(a, alo, ahi, b, blo, bhi) ==
    LET m == find_longest_match(a, alo, ahi, b, blo, bhi)
        i == m[1]
        j == m[2]
        k == m[3]
    IN  IF k = 0 THEN 0
        ELSE k
             + (IF alo < i /\ blo < j
                THEN matching_size(a, alo, i, b, blo, j) ELSE 0)
             + (IF i + k < ahi /\ j + k < bhi
                THEN matching_size(a, i + k, ahi, b, j + k, bhi) ELSE 0)

\* ratio() as the fraction <<numerator, denominator>>: 2.0 * matches / length,
\* and 1.0 when both sequences are empty
ratio(a, b) ==
    IF Len(a) + Len(b) = 0 THEN <<1, 1>>
    ELSE <<2 * matching_size(a, 1, Len(a) + 1, b, 1, Len(b) + 1), Len(a) + Len(b)>>

\* every str the model's tracks carry, lower-cased
LowerTexts ==
    {<<"a", "b">>, <<"a", "b", "c">>, <<"b", "c">>, <<"x">>, <<"y">>,
     <<"u", "n", "k">>}

\* ratio() tabulated once for the texts of the model
RatioTable == [p \in LowerTexts \X LowerTexts |-> ratio(p[1], p[2])]

SequenceMatcherRatio(a, b) ==
    IF <<a, b>> \in DOMAIN RatioTable THEN RatioTable[<<a, b>>] ELSE ratio(a, b)

\* (title_similarity * 0.7) + (artist_similarity * 0.3) >= threshold, with the
\* threshold in hundredths.  The comparison is exact: for the ratios of
\* sequences of total length up to 12 and the thresholds 0, 0.85 and 1 the
\* floating-point sum compares as the exact sum does.
combined_at_least(t, r, threshold) ==
    10 * (7 * t[1] * r[2] + 3 * r[1] * t[2]) >= threshold * t[2] * r[2]

default_similarity_threshold == 85

----------------------------------------------------------------------------
(* recognizers/utils.py *)

DigitChars == <<"0", "1", "2", "3", "4", "5", "6", "7", "8", "9">>

RECURSIVE Decimal(_)
\* str(n) of a non-negative int
Decimal(n) ==
    IF n < 10 THEN <<DigitChars[n + 1]>>
    ELSE Decimal(n \div 10) \o <<DigitChars[(n % 10) + 1]>>

\* f"{n:02d}" of a non-negative int
Pad2(n) == IF n < 10 THEN <<"0">> \o Decimal(n) ELSE Decimal(n)

\* format_time without the hours, as in src/main.py
format_time_minutes_only(seconds) ==
    Pad2(seconds \div 60) \o <<":">> \o Pad2(seconds % 60)

\* format_time(seconds): divmod twice, then HH:MM:SS or MM:SS
format_time(seconds) ==
    LET mins0 == seconds \div 60
        secs == seconds % 60
        hours == mins0 \div 60
        mins == mins0 % 60
    IN  IF hours > 0
        THEN Pad2(hours) \o <<":">> \o Pad2(mins) \o <<":">> \o Pad2(secs)
        ELSE Pad2(mins) \o <<":">> \o Pad2(secs)

\* the formatting of track["timestamp"] at the end of ShazamRecognizer.process_results
format_timestamp(seconds) ==
    LET mins0 == seconds \div 60
        secs == seconds % 60
        hours == mins0 \div 60
        mins == mins0 % 60
    IN  IF hours > 0
        THEN Pad2(hours) \o <<":">> \o Pad2(mins) \o <<":">> \o Pad2(secs)
        ELSE Pad2(mins) \o <<":">> \o Pad2(secs)

\* are_tracks_similar without the test of the empty fields
are_tracks_similar_unchecked(track1, track2, threshold) ==
    IF ~Truthy(track1) \/ ~Truthy(track2) THEN FALSE
    ELSE combined_at_least(
             SequenceMatcherRatio(lower(Get(track1, "title", <<>>)),
                                  lower(Get(track2, "title", <<>>))),
             SequenceMatcherRatio(lower(Get(track1, "artist", <<>>)),
                                  lower(Get(track2, "artist", <<>>))),
             threshold)

\* are_tracks_similar(track1, track2, similarity_threshold), the threshold in
\* hundredths
are_tracks_similar(track1, track2, threshold) ==
    IF ~Truthy(track1) \/ ~Truthy(track2) THEN FALSE
    ELSE LET title1 == Get(track1, "title", <<>>)
             artist1 == Get(track1, "artist", <<>>)
             title2 == Get(track2, "title", <<>>)
             artist2 == Get(track2, "artist", <<>>)
         IN  IF title1 = <<>> \/ title2 = <<>> \/ artist1 = <<>> \/ artist2 = <<>>
             THEN FALSE
             ELSE combined_at_least(
                      SequenceMatcherRatio(lower(title1), lower(title2)),
                      SequenceMatcherRatio(lower(artist1), lower(artist2)),
                      threshold)

----------------------------------------------------------------------------
(* shazam_tracklist_identifier.py *)

\* are_tracks_similar of the script: no check of empty fields
are_tracks_similar_script(track1, track2) ==
    IF ~Truthy(track1) \/ ~Truthy(track2) THEN FALSE
    ELSE combined_at_least(
             SequenceMatcherRatio(lower(track1.title), lower(track2.title)),
             SequenceMatcherRatio(lower(track1.artist), lower(track2.artist)),
             default_similarity_threshold)

RECURSIVE raw_tracks_from_unknown(_, _, _)
\* first loop that keeps a chunk without a track as a track of unknown title
raw_tracks_from_unknown(res, i, cd) ==
    IF i > Len(res) THEN <<>>
    ELSE LET result == res[i]
         IN  (IF Truthy(result)
              THEN <<[title |-> IF "track" \in DOMAIN result
                                THEN result.track.title ELSE <<"u", "n", "k">>,
                      artist |-> IF "track" \in DOMAIN result
                                 THEN result.track.subtitle ELSE <<"u", "n", "k">>,
                      chunk_index |-> i - 1,
                      timestamp |-> (i - 1) * cd]>>
              ELSE <<>>)
             \o raw_tracks_from_unknown(res, i + 1, cd)

RECURSIVE raw_tracks_from(_, _, _)
\* first loop of compile_tracklist, from list position i (1-based) on
raw_tracks_from(res, i, cd) ==
    IF i > Len(res) THEN <<>>
    ELSE LET result == res[i]
         IN  (IF Truthy(result) /\ "track" \in DOMAIN result
                 /\ "title" \in DOMAIN result.track
              THEN <<[title |-> result.track.title,
                      artist |-> result.track.subtitle,
                      chunk_index |-> i - 1,
                      timestamp |-> (i - 1) * cd]>>
              ELSE <<>>)
             \o raw_tracks_from(res, i + 1, cd)

\* extends_group with the comparison anchored to the group's last member
extends_group_last_anchor(track, current_group, maxint) ==
    LET last_track == current_group[Len(current_group)]
        chunks_between == track.chunk_index - last_track.chunk_index - 1
    IN  chunks_between <= maxint
        /\ are_tracks_similar_script(track, last_track)

\* extends_group with the gap compared strictly
extends_group_strict_gap(track, current_group, maxint) ==
    LET last_track == current_group[Len(current_group)]
        chunks_between == track.chunk_index - last_track.chunk_index - 1
    IN  chunks_between < maxint
        /\ are_tracks_similar_script(track, current_group[1])

\* extends_group without the test of the gap
extends_group_any_gap(track, current_group, maxint) ==
    are_tracks_similar_script(track, current_group[1])

\* the grouping loop's test: the track extends the current group
extends_group(track, current_group, maxint) ==
    LET last_track == current_group[Len(current_group)]
        chunks_between == track.chunk_index - last_track.chunk_index - 1
    IN  chunks_between <= maxint
        /\ are_tracks_similar_script(track, current_group[1])

\* one iteration of the grouping loop; g = <<consolidated_tracks, current_group>>
group_step(g, track, maxint) ==
    IF g[2] = <<>> THEN <<g[1], <<track>>>>
    ELSE IF extends_group(track, g[2], maxint)
         THEN <<g[1], Append(g[2], track)>>
         ELSE <<Append(g[1], g[2]), <<track>>>>

RECURSIVE group_loop(_, _, _, _)
group_loop(raw, k, g, maxint) ==
    IF k > Len(raw) THEN g
    ELSE group_loop(raw, k + 1, group_step(g, raw[k], maxint), maxint)

\* consolidated_tracks after the grouping loop and the final flush
consolidated_groups(res, cd, maxint) ==
    LET g == group_loop(raw_tracks_from(res, 1, cd), 1, <<<<>>, <<>>>>, maxint)
    IN  IF g[2] # <<>> THEN Append(g[1], g[2]) ELSE g[1]

\* group_entry with the end one chunk later
group_entry_late_end(group, cd, mindur) ==
    LET start_time == group[1].timestamp
        end_time == group[Len(group)].timestamp + cd + cd
        duration == end_time - start_time
    IN  IF duration >= mindur
        THEN <<[start |-> start_time, end |-> end_time, duration |-> duration,
                track |-> [title |-> group[1].title, artist |-> group[1].artist]]>>
        ELSE <<>>

\* group_entry with the title and artist of the group's last member
group_entry_last_member(group, cd, mindur) ==
    LET start_time == group[1].timestamp
        end_time == group[Len(group)].timestamp + cd
        duration == end_time - start_time
    IN  IF duration >= mindur
        THEN <<[start |-> start_time, end |-> end_time, duration |-> duration,
                track |-> [title |-> group[Len(group)].title,
                           artist |-> group[Len(group)].artist]]>>
        ELSE <<>>

\* group_entry without the minimum duration
group_entry_unfiltered(group, cd, mindur) ==
    LET start_time == group[1].timestamp
        end_time == group[Len(group)].timestamp + cd
        duration == end_time - start_time
    IN  <<[start |-> start_time, end |-> end_time, duration |-> duration,
           track |-> [title |-> group[1].title, artist |-> group[1].artist]]>>

\* the entry of one group, or nothing when the group is too short
group_entry(group, cd, mindur) ==
    LET start_time == group[1].timestamp
        end_time == group[Len(group)].timestamp + cd
        duration == end_time - start_time
    IN  IF duration >= mindur
        THEN <<[start |-> start_time, end |-> end_time, duration |-> duration,
                track |-> [title |-> group[1].title, artist |-> group[1].artist]]>>
        ELSE <<>>

RECURSIVE entries_from(_, _, _, _)
\* last loop of compile_tracklist, from group k on
entries_from(groups, k, cd, mindur) ==
    IF k > Len(groups) THEN <<>>
    ELSE (IF Len(groups[k]) = 0 THEN <<>> ELSE group_entry(groups[k], cd, mindur))
         \o entries_from(groups, k + 1, cd, mindur)

compile_tracklist(res, cd, mindur, maxint) ==
    entries_from(consolidated_groups(res, cd, maxint), 1, cd, mindur)

----------------------------------------------------------------------------
(* Inputs of compile_tracklist *)

Ar_x == <<"x">>
Ar_y == <<"y">>

\* three spellings: Ab ~ abc ~ bc are similar in turn, Ab and bc are not
Title_Ab  == <<"A", "b">>
Title_abc == <<"a", "b", "c">>
Title_bc  == <<"b", "c">>

Song_A  == [title |-> Title_Ab, subtitle |-> Ar_x]
Song_A2 == [title |-> Title_abc, subtitle |-> Ar_x]
Song_A3 == [title |-> Title_bc, subtitle |-> Ar_x]

\* a Shazam response with a match
ShazamHit(song) == [matches |-> <<1>>, track |-> song]

\* a Shazam response that names no track
ShazamMiss == [matches |-> <<1>>]

Hit_A == ShazamHit(Song_A)

\* what one chunk's recognition can hand to compile_tracklist
RawResults ==
    {PyNone, Hit_A, ShazamHit(Song_A2), ShazamHit(Song_A3)}

RECURSIVE SeqsUpTo(_, _)
\* the sequences over S of length at most n
SeqsUpTo(S, n) ==
    IF n = 0 THEN {<<>>}
    ELSE LET shorter == SeqsUpTo(S, n - 1)
         IN  shorter \cup {Append(s, x) : s \in {t \in shorter : Len(t) = n - 1}, x \in S}

\* the two raw sequences of the specification's gap examples
GapTolerated == <<Hit_A, Hit_A, PyNone, Hit_A, Hit_A>>
GapExceeded  == <<Hit_A, Hit_A, PyNone, PyNone, PyNone, Hit_A, Hit_A>>

\* two runs of two chunks with two unrecognised chunks between them
TwoRuns == <<Hit_A, Hit_A, PyNone, PyNone, Hit_A, Hit_A>>

\* raw sequences with responses that name no track
Unrecognised ==
    {<<ShazamMiss>>, <<ShazamMiss, ShazamMiss, PyNone>>,
     <<EmptyDict, ShazamMiss, ShazamMiss>>,
     <<Hit_A, ShazamMiss, Hit_A>>,
     <<Hit_A, Hit_A, ShazamMiss, EmptyDict, Hit_A, Hit_A>>}

CompileInputs ==
    SeqsUpTo(RawResults, MaxChunks) \cup {GapTolerated, GapExceeded, TwoRuns}
        \cup Unrecognised

ChunkDurations == {30}
MinDurations == {60, 90}
MaxInterruptions == {1, 2}

----------------------------------------------------------------------------
(* compile_tracklist as a state machine *)

InitCompile ==
    /\ mode = "compile"
    /\ pc = "start"
    /\ results \in CompileInputs
    /\ chunk_duration \in ChunkDurations
    /\ min_duration_seconds \in MinDurations
    /\ max_interruption_chunks \in MaxInterruptions
    /\ consolidated_tracks = <<>>
    /\ final_tracklist = <<>>
    /\ IdleMerge
    /\ IdleUtils
    /\ IdleSession
    /\ IdleRegistry
    /\ IdleBatch

CompileTracklist ==
    /\ mode = "compile"
    /\ pc = "start"
    /\ consolidated_tracks' = consolidated_groups(results, chunk_duration,
                                                  max_interruption_chunks)
    /\ final_tracklist' = compile_tracklist(results, chunk_duration,
                                            min_duration_seconds,
                                            max_interruption_chunks)
    /\ pc' = "done"
    /\ UNCHANGED <<mode, results, chunk_duration, min_duration_seconds,
                   max_interruption_chunks, mergeVars, utilsVars, sessionVars, registryVars, batchVars>>

NextCompile == CompileTracklist

SpecCompile == InitCompile /\ [][NextCompile]_vars

----------------------------------------------------------------------------
(* recognizers/manager.py: _sort_and_deduplicate_tracks *)

window_size == 30

RECURSIVE SplitColon(_, _, _)
\* str.split(":"), from position i on, with the field read so far
SplitColon(s, i, field) ==
    IF i > Len(s) THEN <<field>>
    ELSE IF s[i] = ":" THEN <<field>> \o SplitColon(s, i + 1, <<>>)
         ELSE SplitColon(s, i + 1, Append(field, s[i]))

DigitValue(c) == CHOOSE v \in 0..9 : DigitChars[v + 1] = c

RECURSIVE int(_)
\* int() of a str of decimal digits
int(digits) ==
    IF Len(digits) = 0 THEN 0
    ELSE 10 * int(SubSeq(digits, 1, Len(digits) - 1)) + DigitValue(digits[Len(digits)])

\* the parse that reads every timestamp as MM:SS
timestamp_seconds_two_fields(timestamp) ==
    LET parts == SplitColon(timestamp, 1, <<>>)
    IN  IF Len(parts) >= 2 THEN int(parts[1]) * 60 + int(parts[2])
        ELSE 0

\* the seconds the merge reads from a timestamp str: MM:SS, HH:MM:SS, else 0
timestamp_seconds(timestamp) ==
    LET parts == SplitColon(timestamp, 1, <<>>)
    IN  IF Len(parts) = 2 THEN int(parts[1]) * 60 + int(parts[2])
        ELSE IF Len(parts) = 3
             THEN int(parts[1]) * 3600 + int(parts[2]) * 60 + int(parts[3])
             ELSE 0

Range(f) == {f[i] : i \in DOMAIN f}

\* d[k] = v on a dict
SetItem(dict, k, v) == (k :> v) @@ dict

\* del d[k]
DelItem(dict, k) == [j \in DOMAIN dict \ {k} |-> dict[j]]

\* first loop: every track of the list gets the field _timestamp_seconds
with_timestamp_seconds(heap, list) ==
    [id \in DOMAIN heap |->
        IF id \in Range(list)
        THEN SetItem(heap[id], "_timestamp_seconds",
                     timestamp_seconds(heap[id].timestamp))
        ELSE heap[id]]

\* sorted() is stable: x goes after the elements whose key is not greater
insert_sorted(heap, sorted, x) ==
    LET n == Cardinality({k \in DOMAIN sorted :
                 heap[sorted[k]]["_timestamp_seconds"] <= heap[x]["_timestamp_seconds"]})
    IN  SubSeq(sorted, 1, n) \o <<x>> \o SubSeq(sorted, n + 1, Len(sorted))

RECURSIVE sorted_from(_, _, _, _)
sorted_from(heap, list, k, sorted) ==
    IF k > Len(list) THEN sorted
    ELSE sorted_from(heap, list, k + 1, insert_sorted(heap, sorted, list[k]))

\* the list left in the order of the backends
sorted_tracks_unsorted(heap, list) == list

\* sorted(tracks, key=lambda x: x["_timestamp_seconds"])
sorted_tracks(heap, list) == sorted_from(heap, list, 1, <<>>)

Abs(n) == IF n < 0 THEN -n ELSE n

\* is_duplicate by the time window alone
is_duplicate_time_only(track, last_track) ==
    Abs(track["_timestamp_seconds"] - last_track["_timestamp_seconds"]) <= window_size

\* the candidate is folded into last_track: near in time and similar
is_duplicate(track, last_track) ==
    /\ Abs(track["_timestamp_seconds"] - last_track["_timestamp_seconds"]) <= window_size
    /\ are_tracks_similar(track, last_track, default_similarity_threshold)

OverwrittenKeys == {"title", "artist", "confidence", "recognizer"}

\* overwrite that takes the whole higher-confidence track, timestamp included
overwrite_whole_track(last_track, track) ==
    [k \in DOMAIN last_track \cup DOMAIN track |->
        IF k \in DOMAIN track THEN track[k] ELSE last_track[k]]

\* last_track after the keys of the higher-confidence track are copied into it
overwrite(last_track, track) ==
    [k \in DOMAIN last_track \cup (OverwrittenKeys \cap DOMAIN track) |->
        IF k \in OverwrittenKeys \cap DOMAIN track THEN track[k] ELSE last_track[k]]

\* the loop body replacing the identification on an equal confidence as well
dedup_step_replace_on_equal(st, track) ==
    LET heap == st[1]
        deduped == st[2]
    IN  IF deduped = <<>> THEN <<heap, <<track>>>>
        ELSE LET last_track == deduped[Len(deduped)]
             IN  IF is_duplicate(heap[track], heap[last_track])
                 THEN IF Get(heap[track], "confidence", 0)
                           >= Get(heap[last_track], "confidence", 0)
                      THEN <<[heap EXCEPT ![last_track] =
                                 overwrite(heap[last_track], heap[track])], deduped>>
                      ELSE st
                 ELSE <<heap, Append(deduped, track)>>

\* one iteration of the deduplication loop; st = <<heap, deduped_tracks>>
dedup_step(st, track) ==
    LET heap == st[1]
        deduped == st[2]
    IN  IF deduped = <<>> THEN <<heap, <<track>>>>
        ELSE LET last_track == deduped[Len(deduped)]
             IN  IF is_duplicate(heap[track], heap[last_track])
                 THEN IF Get(heap[track], "confidence", 0)
                           > Get(heap[last_track], "confidence", 0)
                      THEN <<[heap EXCEPT ![last_track] =
                                 overwrite(heap[last_track], heap[track])], deduped>>
                      ELSE st
                 ELSE <<heap, Append(deduped, track)>>

\* the comparison of the confidences at line 181 raises TypeError when one of
\* them is not a number
dedup_step_raises(st, track) ==
    LET heap == st[1]
        deduped == st[2]
    IN  /\ deduped # <<>>
        /\ is_duplicate(heap[track], heap[deduped[Len(deduped)]])
        /\ \/ IsNone(Get(heap[track], "confidence", 0))
           \/ IsNone(Get(heap[deduped[Len(deduped)]], "confidence", 0))

RECURSIVE dedup_loop_until_raise(_, _, _)
\* the deduplication loop up to the iteration that raises, if one does:
\* <<heap, deduped_tracks, raised>>
dedup_loop_until_raise(sorted, k, st) ==
    IF k > Len(sorted) THEN <<st[1], st[2], FALSE>>
    ELSE IF dedup_step_raises(st, sorted[k]) THEN <<st[1], st[2], TRUE>>
    ELSE dedup_loop_until_raise(sorted, k + 1, dedup_step(st, sorted[k]))

\* _sort_and_deduplicate_tracks(tracks) raises
sort_and_deduplicate_raises(heap, list) ==
    /\ list # <<>>
    /\ LET heap1 == with_timestamp_seconds(heap, list)
       IN  dedup_loop_until_raise(sorted_tracks(heap1, list), 1, <<heap1, <<>>>>)[3]

\* the tracks as the call that raises leaves them
heap_when_raised(heap, list) ==
    LET heap1 == with_timestamp_seconds(heap, list)
    IN  dedup_loop_until_raise(sorted_tracks(heap1, list), 1, <<heap1, <<>>>>)[1]

RECURSIVE dedup_loop(_, _, _)
dedup_loop(sorted, k, st) ==
    IF k > Len(sorted) THEN st
    ELSE dedup_loop(sorted, k + 1, dedup_step(st, sorted[k]))

\* last loop: the helper field is deleted from the tracks that are returned
without_timestamp_seconds(heap, deduped) ==
    [id \in DOMAIN heap |->
        IF id \in Range(deduped) /\ "_timestamp_seconds" \in DOMAIN heap[id]
        THEN DelItem(heap[id], "_timestamp_seconds")
        ELSE heap[id]]

\* _sort_and_deduplicate_tracks(tracks) on the heap: <<heap after, returned list>>
sort_and_deduplicate_tracks(heap, list) ==
    IF list = <<>> THEN <<heap, <<>>>>
    ELSE LET heap1 == with_timestamp_seconds(heap, list)
             st == dedup_loop(sorted_tracks(heap1, list), 1, <<heap1, <<>>>>)
         IN  <<without_timestamp_seconds(st[1], st[2]), st[2]>>

----------------------------------------------------------------------------
(* Inputs of the merge *)

\* start times: 10 s apart, 30 s apart (the edge of the window), 40 s apart
MergeTimes == {0, 10, 40}

\* Shazam reports the confidence 1.0, AcoustID its score
MergeSources == {[recognizer |-> "shazam", confidence |-> 100],
                 [recognizer |-> "acoustid", confidence |-> 60]}

MergeTitles == {Title_Ab, Title_abc, Title_bc}

\* the tracks a recognizer can return, as process_results builds them
MergeTracks ==
    {[title |-> t, artist |-> Ar_x, timestamp |-> format_time(at),
      confidence |-> src.confidence, recognizer |-> src.recognizer] :
        t \in MergeTitles, at \in MergeTimes, src \in MergeSources}

----------------------------------------------------------------------------
(* _sort_and_deduplicate_tracks as a state machine *)

InitMerge ==
    /\ mode = "merge"
    /\ pc = "start"
    /\ tracks \in SeqsUpTo(MergeTracks, MaxMergeTracks)
    /\ track_heap = tracks
    /\ combined_results = [i \in DOMAIN tracks |-> i]
    /\ IdleCompile
    /\ IdleUtils
    /\ IdleSession
    /\ IdleRegistry
    /\ IdleBatch

SortAndDeduplicateTracks ==
    /\ mode = "merge"
    /\ pc = "start"
    /\ LET r == sort_and_deduplicate_tracks(track_heap, combined_results)
       IN  /\ track_heap' = r[1]
           /\ combined_results' = r[2]
    /\ pc' = "done"
    /\ UNCHANGED <<mode, tracks, compileVars, utilsVars, sessionVars, registryVars, batchVars>>

NextMerge == SortAndDeduplicateTracks

SpecMerge == InitMerge /\ [][NextMerge]_vars

----------------------------------------------------------------------------
(* recognizers/factory.py: the registry and get_recognizer *)

\* str.lower() on the recognizer names the model uses
lower_name(name) ==
    CASE name = "Shazam" -> "shazam"
      [] name = "SHAZAM" -> "shazam"
      [] name = "Mine" -> "mine"
      [] name = "MINE" -> "mine"
      [] name = "ACOUSTID" -> "acoustid"
      [] name = "Track_Finder" -> "track_finder"
      [] OTHER -> name

\* chunk_duration of a recognizer built without parameters
default_chunk_duration(recognizer_class) ==
    IF recognizer_class = "AcoustIDRecognizer" THEN 60 ELSE 30

\* get_recognizer(recognizer_type): None for a name that is not registered and
\* for a class whose constructor raises, else the instance
get_recognizer(recognizer_type, constructor_raises) ==
    IF lower_name(recognizer_type) \notin DOMAIN recognizers THEN PyNone
    ELSE IF constructor_raises THEN PyNone
    ELSE LET recognizer_class == recognizers[lower_name(recognizer_type)]
         IN  [name |-> recognizer_class,
              chunk_duration |-> default_chunk_duration(recognizer_class)]

----------------------------------------------------------------------------
(* recognize_chunk of the three recognizers *)

\* an exception raised by the service or the subprocess the chunk is sent to
Raises == [raises |-> "Exception"]

\* ShazamRecognizer.recognize_chunk on what shazam.recognize() gives back; the
\* log line reads title and subtitle, a KeyError there is caught like any
\* other exception
shazam_recognize_chunk(response) ==
    IF response = Raises THEN PyNone
    ELSE IF ~Truthy(response) \/ "matches" \notin DOMAIN response
            \/ response.matches = <<>>
         THEN PyNone
    ELSE IF "track" \in DOMAIN response
         THEN IF "title" \in DOMAIN response.track /\ "subtitle" \in DOMAIN response.track
              THEN response
              ELSE PyNone
         ELSE PyNone

\* a float of the JSON the lookup returns, in hundredths
Float(hundredths) == [float |-> hundredths]

\* the first of the results with the greatest score: max(results, key=score)
best_of(scored) ==
    LET score(x) == Get(x, "score", Float(0)).float
        top == Max({score(scored[k]) : k \in DOMAIN scored})
    IN  scored[Min({k \in DOMAIN scored : score(scored[k]) = top})]

RECURSIVE join_names(_, _)
\* ", ".join(names)
join_names(names, k) ==
    IF k > Len(names) THEN <<>>
    ELSE IF k = Len(names) THEN names[k]
    ELSE names[k] \o <<",", " ">> \o join_names(names, k + 1)

Text_Unknown == <<"U", "n", "k", "n", "o", "w", "n">>

Text_UnknownArtist == Text_Unknown \o <<" ">> \o <<"A", "r", "t", "i", "s", "t">>

Text_UnknownTitle == Text_Unknown \o <<" ">> \o <<"T", "i", "t", "l", "e">>

\* AcoustIDRecognizer.process_acoustid_results(data)
process_acoustid_results(data) ==
    IF "status" \notin DOMAIN data \/ data.status # "ok"
       \/ Get(data, "results", <<>>) = <<>>
    THEN PyNone
    ELSE LET best_result == best_of(data.results)
         IN  IF Get(best_result, "recordings", <<>>) = <<>>
             THEN [acoustid |-> IF "id" \in DOMAIN best_result THEN <<best_result.id>> ELSE <<>>,
                   score |-> Get(best_result, "score", PyNone),
                   title |-> Text_Unknown,
                   artist |-> Text_Unknown,
                   message |-> "ID found but no associated metadata"]
             ELSE LET recording == best_result.recordings[1]
                      artists == [k \in DOMAIN Get(recording, "artists", <<>>) |->
                                     recording.artists[k].name]
                  IN  [acoustid |-> IF "id" \in DOMAIN best_result THEN <<best_result.id>> ELSE <<>>,
                       score |-> Get(best_result, "score", PyNone),
                       title |-> Get(recording, "title", Text_UnknownTitle),
                       artist |-> IF artists # <<>> THEN join_names(artists, 1)
                                  ELSE Text_UnknownArtist,
                       recognizer |-> "acoustid"]

\* AcoustIDRecognizer.recognize_chunk on what the lookup gives back
acoustid_recognize_chunk(response) ==
    IF response = Raises THEN PyNone ELSE process_acoustid_results(response)

\* ExecutableRecognizer._validate_result(result)
validate_result(res) ==
    IF ~Get(res, "success", FALSE) \/ ~Get(res, "matched", FALSE) THEN FALSE
    ELSE IF "audio" \notin DOMAIN res THEN FALSE
    ELSE {"title", "artist", "confidence"} \subseteq DOMAIN res.audio

\* ExecutableRecognizer._transform_result(result)
transform_result(res) ==
    LET audio == res.audio
    IN  [title |-> audio.title,
         artist |-> audio.artist,
         confidence |-> audio.confidence,
         trackId |-> Get(audio, "trackId", <<>>),
         mediaType |-> Get(audio, "mediaType", <<>>),
         trackStartsAt |-> Get(audio, "trackStartsAt", 0),
         trackLength |-> Get(audio, "trackLength", 0),
         recognizer |-> "executable"]

\* ExecutableRecognizer.recognize_chunk on the JSON the executable prints; a
\* missing executable, a non-zero return code and invalid JSON all give None
executable_recognize_chunk(response) ==
    IF response = Raises THEN PyNone
    ELSE IF validate_result(response) THEN transform_result(response)
    ELSE PyNone

recognize_chunk(recognizer_class, response) ==
    CASE recognizer_class = "ShazamRecognizer" -> shazam_recognize_chunk(response)
      [] recognizer_class = "AcoustIDRecognizer" -> acoustid_recognize_chunk(response)
      [] OTHER -> executable_recognize_chunk(response)

----------------------------------------------------------------------------
(* process_results of the three recognizers *)

RECURSIVE InOrder(_)
\* the list positions of a set, in the order enumerate() visits them
InOrder(positions) ==
    IF positions = {} THEN <<>>
    ELSE <<Min(positions)>> \o InOrder(positions \ {Min(positions)})

RECURSIVE consolidate_loop(_, _, _, _, _)
\* the second loop: a track similar to current_track is dropped, and only
\* raises its confidence when update_confidence; a different one closes it
consolidate_loop(raw_tracks, k, consolidated, current_track, update_confidence) ==
    IF k > Len(raw_tracks)
    THEN IF current_track # PyNone THEN Append(consolidated, current_track)
         ELSE consolidated
    ELSE LET track == raw_tracks[k]
         IN  IF current_track = PyNone
             THEN consolidate_loop(raw_tracks, k + 1, consolidated, track,
                                   update_confidence)
             ELSE IF are_tracks_similar(current_track, track, default_similarity_threshold)
             THEN consolidate_loop(raw_tracks, k + 1, consolidated,
                      IF update_confidence /\ track.confidence > current_track.confidence
                      THEN [current_track EXCEPT !.confidence = track.confidence]
                      ELSE current_track,
                      update_confidence)
             ELSE consolidate_loop(raw_tracks, k + 1,
                      Append(consolidated, current_track), track, update_confidence)

\* the last loop: the timestamps become strings
with_formatted_timestamps(consolidated) ==
    [k \in DOMAIN consolidated |->
        [consolidated[k] EXCEPT !.timestamp = format_timestamp(@)]]

\* ShazamRecognizer.process_results: the guard of the first loop
shazam_guard(res) ==
    Truthy(res) /\ "track" \in DOMAIN res /\ "title" \in DOMAIN res.track

\* a result that passes the guard and has no subtitle raises KeyError
shazam_process_raises(res) ==
    \E i \in DOMAIN res : shazam_guard(res[i]) /\ "subtitle" \notin DOMAIN res[i].track

shazam_process_results(res, cd) ==
    LET Track(r, i) == [title |-> r.track.title,
                        artist |-> r.track.subtitle,
                        timestamp |-> i * cd,
                        confidence |-> 100,
                        recognizer |-> "shazam"]
        kept == InOrder({i \in DOMAIN res : shazam_guard(res[i])})
        raw_tracks == [k \in DOMAIN kept |-> Track(res[kept[k]], kept[k] - 1)]
    IN  with_formatted_timestamps(
            consolidate_loop(raw_tracks, 1, <<>>, PyNone, FALSE))

\* AcoustIDRecognizer.process_results: the guard of the first loop
acoustid_guard(res) ==
    Truthy(res) /\ "title" \in DOMAIN res /\ "artist" \in DOMAIN res

\* float(None) raises TypeError: a score that is present and None
acoustid_process_raises(res) ==
    \E i \in DOMAIN res : acoustid_guard(res[i]) /\ Get(res[i], "score", Float(50)) = PyNone

\* process_results that keeps the confidence of the run's first member
acoustid_process_results_first_confidence(res, cd) ==
    LET Track(r, i) == [title |-> r.title,
                        artist |-> r.artist,
                        timestamp |-> i * cd,
                        confidence |-> Get(r, "score", Float(50)).float,
                        recognizer |-> "acoustid"]
        kept == InOrder({i \in DOMAIN res : acoustid_guard(res[i])})
        raw_tracks == [k \in DOMAIN kept |-> Track(res[kept[k]], kept[k] - 1)]
    IN  with_formatted_timestamps(
            consolidate_loop(raw_tracks, 1, <<>>, PyNone, FALSE))

acoustid_process_results(res, cd) ==
    LET Track(r, i) == [title |-> r.title,
                        artist |-> r.artist,
                        timestamp |-> i * cd,
                        confidence |-> Get(r, "score", Float(50)).float,
                        recognizer |-> "acoustid"]
        kept == InOrder({i \in DOMAIN res : acoustid_guard(res[i])})
        raw_tracks == [k \in DOMAIN kept |-> Track(res[kept[k]], kept[k] - 1)]
    IN  with_formatted_timestamps(
            consolidate_loop(raw_tracks, 1, <<>>, PyNone, TRUE))

\* ExecutableRecognizer.process_results: the guard of the first loop
executable_guard(res) == Truthy(res)

RECURSIVE consolidate_raises(_, _, _)
\* the comparison of the confidences in the second loop raises TypeError when
\* one of them is not a number
consolidate_raises(raw_tracks, k, current_track) ==
    IF k > Len(raw_tracks) THEN FALSE
    ELSE LET track == raw_tracks[k]
         IN  IF current_track = PyNone
             THEN consolidate_raises(raw_tracks, k + 1, track)
             ELSE IF are_tracks_similar(current_track, track, default_similarity_threshold)
             THEN IF IsNone(track.confidence) \/ IsNone(current_track.confidence)
                  THEN TRUE
                  ELSE consolidate_raises(raw_tracks, k + 1,
                           IF track.confidence > current_track.confidence
                           THEN [current_track EXCEPT !.confidence = track.confidence]
                           ELSE current_track)
             ELSE consolidate_raises(raw_tracks, k + 1, track)

\* a result without title, artist or confidence raises KeyError, a
\* confidence that is not a number raises TypeError when it is compared
executable_process_raises(res) ==
    \/ \E i \in DOMAIN res :
           executable_guard(res[i])
           /\ ~({"title", "artist", "confidence"} \subseteq DOMAIN res[i])
    \/ LET kept == InOrder({i \in DOMAIN res : executable_guard(res[i])})
           raw_tracks == [k \in DOMAIN kept |-> res[kept[k]]]
       IN  consolidate_raises(raw_tracks, 1, PyNone)

executable_process_results(res, cd) ==
    LET Track(r, i) == [title |-> r.title,
                        artist |-> r.artist,
                        timestamp |-> i * cd,
                        confidence |-> r.confidence,
                        recognizer |-> "track_finder"]
        kept == InOrder({i \in DOMAIN res : executable_guard(res[i])})
        raw_tracks == [k \in DOMAIN kept |-> Track(res[kept[k]], kept[k] - 1)]
    IN  with_formatted_timestamps(
            consolidate_loop(raw_tracks, 1, <<>>, PyNone, TRUE))

process_raises(recognizer_class, res) ==
    CASE recognizer_class = "ShazamRecognizer" -> shazam_process_raises(res)
      [] recognizer_class = "AcoustIDRecognizer" -> acoustid_process_raises(res)
      [] OTHER -> executable_process_raises(res)

process_results(recognizer_class, res, cd) ==
    CASE recognizer_class = "ShazamRecognizer" -> shazam_process_results(res, cd)
      [] recognizer_class = "AcoustIDRecognizer" -> acoustid_process_results(res, cd)
      [] OTHER -> executable_process_results(res, cd)

----------------------------------------------------------------------------
(* Inputs of the session *)

\* registered names, one in capitals, and a name that is not registered
RecognizerTypeNames == {"shazam", "ACOUSTID", "track_finder", "nope"}

\* what shazam.recognize() can give back for a chunk
ShazamResponses ==
    <<Raises, EmptyDict, [matches |-> <<>>], ShazamMiss,
      ShazamHit([title |-> Title_Ab]), Hit_A, ShazamHit(Song_A3)>>

AcoustIDRecording(title) == [title |-> title, artists |-> <<[name |-> Ar_x]>>]

\* what the AcoustID lookup can give back for a chunk
AcoustIDResponses ==
    <<Raises,
     [status |-> "error", error |-> "HTTP 500"],
     [status |-> "ok", results |-> <<>>],
     [status |-> "ok", results |-> <<[id |-> "r0"]>>],
     [status |-> "ok",
      results |-> <<[id |-> "r1", score |-> Float(60),
                     recordings |-> <<AcoustIDRecording(Title_abc)>>]>>],
     [status |-> "ok",
      results |-> <<[id |-> "r1", score |-> Float(60),
                     recordings |-> <<AcoustIDRecording(Title_abc)>>],
                    [id |-> "r2", score |-> Float(90),
                     recordings |-> <<AcoustIDRecording(Title_bc)>>]>>]>>

\* what track_finder can print for a chunk
ExecutableResponses ==
    <<Raises,
     [success |-> FALSE],
     [success |-> TRUE, matched |-> TRUE],
     [success |-> TRUE, matched |-> TRUE,
      audio |-> [title |-> Title_Ab, artist |-> Ar_x]],
     [success |-> TRUE, matched |-> TRUE,
      audio |-> [title |-> Title_Ab, artist |-> Ar_x, confidence |-> 80]],
     [success |-> TRUE, matched |-> TRUE,
      audio |-> [title |-> Title_Ab, artist |-> Ar_x, confidence |-> PyNone]]>>

Responses(recognizer_class) ==
    CASE recognizer_class = "ShazamRecognizer" -> ShazamResponses
      [] recognizer_class = "AcoustIDRecognizer" -> AcoustIDResponses
      [] OTHER -> ExecutableResponses

----------------------------------------------------------------------------
(* TrackRecognitionManager.identify_tracks as a state machine: one step per  *)
(* await of the manager and of BaseRecognizer.identify_tracks               *)

InitSession ==
    /\ mode = "session"
    /\ pc = "loop"
    /\ recognizer_types \in SeqsUpTo(RecognizerTypeNames, MaxBackends)
    /\ type_index = 1
    /\ recognizer = PyNone
    /\ chunks = 0
    /\ recognizer_results = <<>>
    /\ retries = 0
    /\ all_results = EmptyDict
    /\ errors = <<>>
    /\ session_result = PyNone
    /\ IdleRegistry
    /\ IdleBatch
    /\ IdleMerge
    /\ IdleCompile
    /\ IdleUtils

recognizer_type == recognizer_types[type_index]

\* ExponentialBackoff(): the fields get_next_delay reads and writes
max_retries == 5

ExponentialBackoff == [initial_delay |-> 1, max_delay |-> 60,
                       max_retries |-> max_retries, retry_count |-> 0]

\* get_next_delay: <<the delay in seconds before the jitter (None when the
\* retries are used up), the backoff afterwards>>
get_next_delay(backoff) ==
    IF backoff.retry_count >= backoff.max_retries THEN <<PyNone, backoff>>
    ELSE <<Min({backoff.initial_delay * 2 ^ backoff.retry_count, backoff.max_delay}),
           [backoff EXCEPT !.retry_count = @ + 1]>>

\* the type is skipped without a trace
RecognizerNotCreated_unrecorded ==
    /\ mode = "session"
    /\ pc = "loop"
    /\ type_index <= Len(recognizer_types)
    /\ \E constructor_raises \in BOOLEAN :
          get_recognizer(recognizer_type, constructor_raises) = PyNone
    /\ type_index' = type_index + 1
    /\ UNCHANGED <<mode, pc, recognizer_types, recognizer, chunks,
                   recognizer_results, retries, all_results, errors, session_result,
                   compileVars, mergeVars, utilsVars, registryVars, batchVars>>

\* the factory returns None: the type is skipped and the error is recorded
RecognizerNotCreated ==
    /\ mode = "session"
    /\ pc = "loop"
    /\ type_index <= Len(recognizer_types)
    /\ \E constructor_raises \in BOOLEAN :
          get_recognizer(recognizer_type, constructor_raises) = PyNone
    /\ errors' = Append(errors, [error |-> "No se pudo crear el reconocedor",
                                 recognizer_type |-> recognizer_type])
    /\ type_index' = type_index + 1
    /\ UNCHANGED <<mode, pc, recognizer_types, recognizer, chunks,
                   recognizer_results, retries, all_results, session_result,
                   compileVars, mergeVars, utilsVars, registryVars, batchVars>>

\* the factory returns a recognizer and its identify_tracks starts
RecognizerCreated ==
    /\ mode = "session"
    /\ pc = "loop"
    /\ type_index <= Len(recognizer_types)
    /\ get_recognizer(recognizer_type, FALSE) # PyNone
    /\ recognizer' = get_recognizer(recognizer_type, FALSE)
    /\ pc' = "download"
    /\ UNCHANGED <<mode, recognizer_types, type_index, chunks,
                   recognizer_results, retries, all_results, errors, session_result,
                   compileVars, mergeVars, utilsVars, registryVars, batchVars>>

\* manager lines 94-103 with the list the recognizer returned: the tracks are
\* new dicts, stored under the type and appended to the combined results
StoreTracks(tracklist) ==
    LET ids == [k \in DOMAIN tracklist |-> Len(track_heap) + k]
        stored == [k \in DOMAIN tracklist |->
                      IF "recognizer" \notin DOMAIN tracklist[k]
                      THEN SetItem(tracklist[k], "recognizer", recognizer_type)
                      ELSE tracklist[k]]
    IN  /\ track_heap' = track_heap \o stored
        /\ all_results' = SetItem(all_results, recognizer_type, ids)
        /\ combined_results' = combined_results \o ids
        /\ type_index' = type_index + 1
        /\ recognizer' = PyNone
        /\ recognizer_results' = <<>>
        /\ retries' = 0
        /\ chunks' = 0
        /\ pc' = "loop"
        /\ UNCHANGED <<mode, recognizer_types, errors, session_result, tracks,
                       compileVars, utilsVars, registryVars, batchVars>>

DownloadAudio ==
    /\ mode = "session"
    /\ pc = "download"
    /\ pc' = "split"
    /\ UNCHANGED <<mode, sessionVars, compileVars, mergeVars, utilsVars, registryVars, batchVars>>

\* download_audio raises: identify_tracks of the recognizer returns []
DownloadAudioFails ==
    /\ mode = "session"
    /\ pc = "download"
    /\ StoreTracks(<<>>)

SplitAudio ==
    /\ mode = "session"
    /\ pc = "split"
    /\ chunks' \in 0..MaxSessionChunks
    /\ recognizer_results' = <<>>
    /\ retries' = 0
    /\ pc' = "recognize"
    /\ UNCHANGED <<mode, recognizer_types, type_index, recognizer, all_results,
                   errors, session_result, compileVars, mergeVars, utilsVars, registryVars, batchVars>>

\* split_audio raises: identify_tracks of the recognizer returns []
SplitAudioFails ==
    /\ mode = "session"
    /\ pc = "split"
    /\ StoreTracks(<<>>)

\* one iteration of the loop over the chunks
RecognizeChunk ==
    /\ mode = "session"
    /\ pc = "recognize"
    /\ Len(recognizer_results) < chunks
    /\ \E k \in DOMAIN Responses(recognizer.name) :
          recognizer_results' =
              Append(recognizer_results,
                     recognize_chunk(recognizer.name, Responses(recognizer.name)[k]))
    /\ retries' = 0
    /\ UNCHANGED <<mode, pc, recognizer_types, type_index, recognizer, chunks,
                   all_results, errors, session_result, compileVars, mergeVars,
                   utilsVars, registryVars, batchVars>>

\* shazam.recognize() raises ClientError or ContentTypeError: the handler asks
\* the backoff of this call, created at line 69 with retry_count = 0, for the
\* next delay; with a delay it calls recognize_chunk again for the same chunk
\* (line 98), without one it returns None for the chunk (lines 99-102)
RetryChunk ==
    /\ mode = "session"
    /\ pc = "recognize"
    /\ recognizer.name = "ShazamRecognizer"
    /\ Len(recognizer_results) < chunks
    /\ retries < RecursionLimit
    /\ LET next_delay == get_next_delay(ExponentialBackoff)[1]
       IN  IF ~IsNone(next_delay)
           THEN /\ retries' = retries + 1
                /\ UNCHANGED recognizer_results
           ELSE /\ retries' = 0
                /\ recognizer_results' = Append(recognizer_results, PyNone)
    /\ UNCHANGED <<mode, pc, recognizer_types, type_index, recognizer, chunks,
                   all_results, errors, session_result, compileVars, mergeVars,
                   utilsVars, registryVars, batchVars>>

\* the recursion of line 98 reaches the interpreter's limit. A RecursionError
\* raised inside the try block of the innermost call is caught at line 103 and
\* every call returns None for the chunk
RecursionErrorCaught ==
    /\ mode = "session"
    /\ pc = "recognize"
    /\ recognizer.name = "ShazamRecognizer"
    /\ Len(recognizer_results) < chunks
    /\ retries = RecursionLimit
    /\ recognizer_results' = Append(recognizer_results, PyNone)
    /\ retries' = 0
    /\ UNCHANGED <<mode, pc, recognizer_types, type_index, recognizer, chunks,
                   all_results, errors, session_result, compileVars, mergeVars,
                   utilsVars, registryVars, batchVars>>

\* a RecursionError raised outside the try block (line 68) or in a handler
\* leaves every recognize_chunk call, which is inside a handler itself, and
\* is caught by BaseRecognizer.identify_tracks (line 138), which returns []
RecursionErrorRaised ==
    /\ mode = "session"
    /\ pc = "recognize"
    /\ recognizer.name = "ShazamRecognizer"
    /\ Len(recognizer_results) < chunks
    /\ retries = RecursionLimit
    /\ StoreTracks(<<>>)

\* process_results, cleanup and the return to the manager; an exception of
\* process_results is caught and [] is returned
ProcessResults ==
    /\ mode = "session"
    /\ pc = "recognize"
    /\ Len(recognizer_results) = chunks
    /\ StoreTracks(IF process_raises(recognizer.name, recognizer_results) THEN <<>>
                   ELSE process_results(recognizer.name, recognizer_results,
                                        recognizer.chunk_duration))

\* after the loop: the merge, the result dict and _save_results, whose
\* exceptions are caught
FinishSession ==
    /\ mode = "session"
    /\ pc = "loop"
    /\ type_index > Len(recognizer_types)
    /\ ~sort_and_deduplicate_raises(track_heap, combined_results)
    /\ tracks' = [k \in DOMAIN combined_results |-> track_heap[combined_results[k]]]
    /\ LET r == sort_and_deduplicate_tracks(track_heap, combined_results)
       IN  /\ track_heap' = r[1]
           /\ combined_results' = r[2]
           /\ session_result' = [recognizers_used |-> recognizer_types,
                         individual_results |-> all_results,
                         combined_results |-> r[2],
                         errors |-> errors,
                         total_tracks |-> Len(r[2])]
    /\ pc' = "done"
    /\ UNCHANGED <<mode, recognizer_types, type_index, recognizer, chunks,
                   recognizer_results, retries, all_results, errors,
                   compileVars, utilsVars, registryVars, batchVars>>

\* after the loop, the merge raises: line 113 is outside the try block, the
\* exception leaves identify_tracks and no result is built
MergeRaises ==
    /\ mode = "session"
    /\ pc = "loop"
    /\ type_index > Len(recognizer_types)
    /\ sort_and_deduplicate_raises(track_heap, combined_results)
    /\ tracks' = [k \in DOMAIN combined_results |-> track_heap[combined_results[k]]]
    /\ track_heap' = heap_when_raised(track_heap, combined_results)
    /\ pc' = "raised"
    /\ UNCHANGED <<mode, combined_results, sessionVars, compileVars, utilsVars, registryVars, batchVars>>

NextSession ==
    \/ RecognizerNotCreated
    \/ RecognizerCreated
    \/ DownloadAudio
    \/ DownloadAudioFails
    \/ SplitAudio
    \/ SplitAudioFails
    \/ RecognizeChunk
    \/ RetryChunk
    \/ RecursionErrorCaught
    \/ RecursionErrorRaised
    \/ ProcessResults
    \/ FinishSession
    \/ MergeRaises

Spec == InitSession /\ [][NextSession]_vars

\* ---------------------------------------------------------------------
\* The recognizer registry (recognizers/factory.py)

\* the names the registry is called with
RegistryNames == {"Mine", "MINE", "mine", "shazam", "SHAZAM", "nope"}

\* the classes of the program and two more: a subclass of BaseRecognizer and a
\* class that is not one
BaseRecognizerSubclasses ==
    {"ShazamRecognizer", "AcoustIDRecognizer", "ExecutableRecognizer", "MyRecognizer"}

RecognizerClasses == {"ShazamRecognizer", "MyRecognizer", "NotARecognizer"}

issubclass(recognizer_class) == recognizer_class \in BaseRecognizerSubclasses

\* the registry is stored under the name as it was given
register_recognizer_case_sensitive(registry, name, recognizer_class) ==
    IF ~issubclass(recognizer_class) THEN registry
    ELSE SetItem(registry, name, recognizer_class)

\* register_recognizer: the registry afterwards
register_recognizer(registry, name, recognizer_class) ==
    IF ~issubclass(recognizer_class) THEN registry
    ELSE SetItem(registry, lower_name(name), recognizer_class)

\* the names get_available_recognizers lists
get_available_recognizers == DOMAIN recognizers

InitRegistry ==
    /\ mode = "registry"
    /\ pc = "loaded"
    /\ IdleRegistry
    /\ IdleBatch
    /\ IdleSession
    /\ IdleMerge
    /\ IdleCompile
    /\ IdleUtils

\* RecognizerFactory.register_recognizer, also reached through
\* TrackRecognitionManager.add_recognizer
RegisterRecognizer ==
    /\ mode = "registry"
    /\ \E name \in RegistryNames, recognizer_class \in RecognizerClasses :
          /\ arg_name' = name
          /\ arg_recognizer_class' = recognizer_class
          /\ recognizers' = register_recognizer(recognizers, name, recognizer_class)
    /\ recognizer' = PyNone
    /\ pc' = "registered"
    /\ UNCHANGED <<mode, recognizer_types, type_index, chunks, recognizer_results,
                   retries, all_results, errors, session_result, compileVars,
                   mergeVars, utilsVars, batchVars>>

\* RecognizerFactory.get_recognizer
GetRecognizer ==
    /\ mode = "registry"
    /\ \E name \in RegistryNames, constructor_raises \in BOOLEAN :
          /\ arg_name' = name
          /\ recognizer' = get_recognizer(name, constructor_raises)
    /\ arg_recognizer_class' = PyNone
    /\ pc' = "got"
    /\ UNCHANGED <<mode, recognizers, recognizer_types, type_index, chunks,
                   recognizer_results, retries, all_results, errors,
                   session_result, compileVars, mergeVars, utilsVars, batchVars>>

NextRegistry == RegisterRecognizer \/ GetRecognizer

SpecRegistry == InitRegistry /\ [][NextRegistry]_vars

\* ---------------------------------------------------------------------
\* The batched pipeline: main of the script (shazam_tracklist_identifier.py
\* 494-546, main.py 207-245)

chunk_size == 3

\* recognize_chunk of the script on what shazam.recognize() gives back, when
\* it is not a connection error: a result without matches gives None, every
\* other result is returned, an exception gives None
script_recognize_chunk(response) ==
    IF response = Raises THEN PyNone
    ELSE IF ~Truthy(response) \/ "matches" \notin DOMAIN response
            \/ response.matches = <<>>
         THEN PyNone
         ELSE response

\* what shazam.recognize() can give back to the script
ScriptResponses == <<Raises, ShazamMiss, Hit_A>>

\* a coroutine of recognize_chunk before asyncio.gather runs it
CreatedTask == [status |-> "created", backoff |-> PyNone, result |-> PyNone]

\* the chunks of the group that starts at chunk i: chunks[i : i + chunk_size]
chunk_group(i) == {k \in i..(i + chunk_size - 1) : k < chunk_count}

\* the list asyncio.gather returns in the order the recognitions resolved
group_results_as_completed(i) ==
    [j \in 1..Cardinality(chunk_group(i)) |-> task_state[completed[j]].result]

\* the list asyncio.gather returns: the results in the order of the tasks
group_results(i) ==
    [j \in 1..Cardinality(chunk_group(i)) |-> task_state[i + j - 1].result]

\* a pause follows every group
pause_follows_always(i) == TRUE

\* the test of line 529: a pause follows the group that starts at chunk i
pause_follows(i) == i + chunk_size < chunk_count

InitBatch ==
    /\ mode = "batch"
    /\ pc = "group"
    /\ chunk_count \in 0..MaxBatchChunks
    /\ group_start = 0
    /\ task_state = [k \in 0..(chunk_count - 1) |-> CreatedTask]
    /\ completed = <<>>
    /\ pauses = 0
    /\ IdleCompile
    /\ IdleMerge
    /\ IdleUtils
    /\ IdleSession
    /\ IdleRegistry

\* one iteration of the loop begins: asyncio.gather starts the recognitions
\* of the group, each with its own backoff
StartGroup ==
    /\ mode = "batch"
    /\ pc = "group"
    /\ group_start < chunk_count
    /\ task_state' = [k \in DOMAIN task_state |->
                         IF k \in chunk_group(group_start)
                         THEN [status |-> "running", backoff |-> ExponentialBackoff,
                               result |-> PyNone]
                         ELSE task_state[k]]
    /\ completed' = <<>>
    /\ pc' = "gather"
    /\ UNCHANGED <<mode, chunk_count, group_start, pauses, compileVars, mergeVars,
                   utilsVars, sessionVars, registryVars>>

\* shazam.recognize() of a running recognition raises a connection error: the
\* recognition is called again with the same backoff, or returns None when
\* the backoff gives no further delay
TaskConnectionError ==
    /\ mode = "batch"
    /\ pc = "gather"
    /\ \E k \in DOMAIN task_state :
          /\ task_state[k].status = "running"
          /\ LET next == get_next_delay(task_state[k].backoff)
             IN  IF IsNone(next[1])
                 THEN /\ task_state' = [task_state EXCEPT ![k].status = "resolved",
                                                          ![k].backoff = PyNone]
                      /\ completed' = Append(completed, k)
                 ELSE /\ task_state' = [task_state EXCEPT ![k].backoff = next[2]]
                      /\ UNCHANGED completed
    /\ UNCHANGED <<mode, pc, chunk_count, group_start, pauses, compileVars,
                   mergeVars, utilsVars, sessionVars, registryVars>>

\* a running recognition returns
TaskResolves ==
    /\ mode = "batch"
    /\ pc = "gather"
    /\ \E k \in DOMAIN task_state, r \in DOMAIN ScriptResponses :
          /\ task_state[k].status = "running"
          /\ task_state' = [task_state EXCEPT
                               ![k].status = "resolved",
                               ![k].backoff = PyNone,
                               ![k].result = script_recognize_chunk(ScriptResponses[r])]
          /\ completed' = Append(completed, k)
    /\ UNCHANGED <<mode, pc, chunk_count, group_start, pauses, compileVars,
                   mergeVars, utilsVars, sessionVars, registryVars>>

\* every recognition of the group has resolved: asyncio.gather returns, the
\* results are appended and the test of the pause is made
GatherReturns ==
    /\ mode = "batch"
    /\ pc = "gather"
    /\ \A k \in chunk_group(group_start) : task_state[k].status = "resolved"
    /\ results' = results \o group_results(group_start)
    /\ IF pause_follows(group_start)
       THEN pc' = "pause" /\ UNCHANGED group_start
       ELSE pc' = "group" /\ group_start' = group_start + chunk_size
    /\ UNCHANGED <<mode, chunk_count, task_state, completed, pauses,
                   chunk_duration, min_duration_seconds, max_interruption_chunks,
                   consolidated_tracks, final_tracklist, mergeVars, utilsVars,
                   sessionVars, registryVars>>

\* the pause between two groups is over
PauseEnds ==
    /\ mode = "batch"
    /\ pc = "pause"
    /\ pauses' = pauses + 1
    /\ group_start' = group_start + chunk_size
    /\ pc' = "group"
    /\ UNCHANGED <<mode, chunk_count, task_state, completed, compileVars,
                   mergeVars, utilsVars, sessionVars, registryVars>>

\* after the loop: compile_tracklist on the results
CompileBatch ==
    /\ mode = "batch"
    /\ pc = "group"
    /\ group_start >= chunk_count
    /\ consolidated_tracks' = consolidated_groups(results, chunk_duration,
                                                  max_interruption_chunks)
    /\ final_tracklist' = compile_tracklist(results, chunk_duration,
                                            min_duration_seconds,
                                            max_interruption_chunks)
    /\ pc' = "done"
    /\ UNCHANGED <<mode, results, chunk_duration, min_duration_seconds,
                   max_interruption_chunks, mergeVars, utilsVars, sessionVars,
                   registryVars, batchVars>>

NextBatch ==
    \/ StartGroup
    \/ TaskConnectionError
    \/ TaskResolves
    \/ GatherReturns
    \/ PauseEnds
    \/ CompileBatch

SpecBatch == InitBatch /\ [][NextBatch]_vars

\* compile_tracklist and the session side by side
SpecEmptyInput == (InitCompile \/ InitSession) /\ [][NextCompile \/ NextSession]_vars

----------------------------------------------------------------------------
(* format_time and are_tracks_similar as state machines *)

\* every second up to MaxSeconds, and the hours around two and three digits
FormatInputs == (0..MaxSeconds) \cup {35999, 36000, 86399, 359999, 360000, 363661}

InitFormat ==
    /\ mode = "format"
    /\ pc = "start"
    /\ arg_seconds \in FormatInputs
    /\ formatted = <<>>
    /\ arg_track1 = PyNone
    /\ arg_track2 = PyNone
    /\ arg_threshold = 85
    /\ similar = FALSE
    /\ IdleCompile
    /\ IdleMerge
    /\ IdleSession
    /\ IdleRegistry
    /\ IdleBatch

FormatTime ==
    /\ mode = "format"
    /\ pc = "start"
    /\ formatted' = format_time(arg_seconds)
    /\ pc' = "done"
    /\ UNCHANGED <<mode, arg_seconds, arg_track1, arg_track2, arg_threshold,
                   similar, compileVars, mergeVars, sessionVars, registryVars, batchVars>>

\* the same number of seconds formatted by the loop at the end of process_results
FormatTimestamp ==
    /\ mode = "format"
    /\ pc = "start"
    /\ formatted' = format_timestamp(arg_seconds)
    /\ pc' = "done_inline"
    /\ UNCHANGED <<mode, arg_seconds, arg_track1, arg_track2, arg_threshold,
                   similar, compileVars, mergeVars, sessionVars, registryVars, batchVars>>

NextFormat == FormatTime \/ FormatTimestamp

SpecFormat == InitFormat /\ [][NextFormat]_vars

\* tracks with every field, with a field missing, with a field empty
SimilarInputs ==
    {PyNone, EmptyDict,
     [title |-> Title_Ab], [artist |-> Ar_x],
     [title |-> <<>>, artist |-> Ar_x], [title |-> Title_Ab, artist |-> <<>>],
     [title |-> <<>>, artist |-> <<>>],
     [title |-> Title_Ab, artist |-> Ar_x], [title |-> Title_abc, artist |-> Ar_x],
     [title |-> Title_bc, artist |-> Ar_x], [title |-> Title_Ab, artist |-> Ar_y],
     [title |-> Title_Ab, artist |-> Ar_x, confidence |-> 100]}

\* thresholds 0.0, 0.85 and 1.0
Thresholds == {0, 85, 100}

InitSimilar ==
    /\ mode = "similar"
    /\ pc = "start"
    /\ arg_track1 \in SimilarInputs
    /\ arg_track2 \in SimilarInputs
    /\ arg_threshold \in Thresholds
    /\ similar = FALSE
    /\ arg_seconds = 0
    /\ formatted = <<>>
    /\ IdleCompile
    /\ IdleMerge
    /\ IdleSession
    /\ IdleRegistry
    /\ IdleBatch

AreTracksSimilar ==
    /\ mode = "similar"
    /\ pc = "start"
    /\ similar' = are_tracks_similar(arg_track1, arg_track2, arg_threshold)
    /\ pc' = "done"
    /\ UNCHANGED <<mode, arg_seconds, formatted, arg_track1, arg_track2,
                   arg_threshold, compileVars, mergeVars, sessionVars, registryVars, batchVars>>

NextSimilar == AreTracksSimilar

SpecSimilar == InitSimilar /\ [][NextSimilar]_vars

----------------------------------------------------------------------------
(* Properties of compile_tracklist *)

\* list positions (1-based) of the chunks that carry a recognition
Recognised == {i \in 1..Len(results) :
                  /\ Truthy(results[i])
                  /\ "track" \in DOMAIN results[i]
                  /\ "title" \in DOMAIN results[i].track}

SongAt(i) == [title |-> results[i].track.title, artist |-> results[i].track.subtitle]

\* a recognition with no recognition before it, or more than
\* max_interruption_chunks unrecognised chunks after the previous one
AfterLongGap(i) ==
    LET before == {j \in Recognised : j < i}
    IN  before = {} \/ i - Max(before) - 1 > max_interruption_chunks

\* the run that starts at s: the recognitions after s, as long as each comes
\* within the tolerated gap and is similar to the recognition at s
RunFrom(s) ==
    {i \in Recognised :
        /\ i >= s
        /\ \A j \in Recognised :
              (s < j /\ j <= i) =>
                  /\ ~AfterLongGap(j)
                  /\ are_tracks_similar_script(SongAt(j), SongAt(s))}

\* the entries of the output that start inside the run from s
SpansOfRun(s) ==
    {k \in DOMAIN final_tracklist :
        /\ (s - 1) * chunk_duration <= final_tracklist[k].start
        /\ final_tracklist[k].start < Max(RunFrom(s)) * chunk_duration}

OneSpanForRun(s) ==
    /\ Cardinality(SpansOfRun(s)) = 1
    /\ \A k \in SpansOfRun(s) :
          /\ final_tracklist[k].start = (s - 1) * chunk_duration
          /\ final_tracklist[k].end = Max(RunFrom(s)) * chunk_duration

RunSpan(s) == (Max(RunFrom(s)) - s + 1) * chunk_duration

CompileDone == mode = "compile" /\ pc = "done"

\* C1 as stated: every run whose members are similar to its first member and
\* whose gaps are tolerated yields exactly one span, from first_index *
\* chunk_duration to (last_index + 1) * chunk_duration
C1_GapToleranceAsStated ==
    CompileDone =>
        \A s \in Recognised : AfterLongGap(s) => OneSpanForRun(s)

\* C1 amended: such a run yields exactly one span, from first_index *
\* chunk_duration to (last_index + 1) * chunk_duration, provided that span is at
\* least min_duration_seconds long; [A, A, none, A, A] with chunk_duration 30
\* yields a single span of 150 s
C1_GapTolerance ==
    CompileDone =>
        /\ \A s \in Recognised :
              (AfterLongGap(s) /\ RunSpan(s) >= min_duration_seconds)
                  => OneSpanForRun(s)
        /\ (results = GapTolerated /\ max_interruption_chunks = 2)
              => /\ Len(final_tracklist) = 1
                 /\ final_tracklist[1].duration = 150

C1_Witness ==
    /\ CompileDone
    /\ results = GapTolerated
    /\ max_interruption_chunks = 2
    /\ chunk_duration = 30
    /\ Len(final_tracklist) = 1
    /\ final_tracklist[1].start = 0
    /\ final_tracklist[1].end = 150

\* C2: a recognition that follows the previous recognition after more than
\* max_interruption_chunks unrecognised chunks starts a new run, whatever the
\* two songs are; [A, A, none, none, none, A, A] with max_interruption_chunks 2
\* and chunk_duration 30 yields two separate spans
C2_GapIntolerance ==
    CompileDone =>
        /\ \A i \in Recognised :
              AfterLongGap(i) =>
                  \E k \in DOMAIN consolidated_tracks :
                      consolidated_tracks[k][1].chunk_index = i - 1
        /\ (results = GapExceeded /\ max_interruption_chunks = 2
            /\ min_duration_seconds = 60)
              => /\ Len(final_tracklist) = 2
                 /\ final_tracklist[1].start = 0
                 /\ final_tracklist[1].end = 60
                 /\ final_tracklist[2].start = 150
                 /\ final_tracklist[2].end = 210

C2_Witness ==
    /\ CompileDone
    /\ results = GapExceeded
    /\ max_interruption_chunks = 2
    /\ min_duration_seconds = 60
    /\ Len(consolidated_tracks) = 2
    /\ Len(final_tracklist) = 2

GroupSpan(group) ==
    group[Len(group)].timestamp + chunk_duration - group[1].timestamp

\* C3: every span of the output lasts at least min_duration_seconds, and a run
\* whose span is shorter contributes no entry, so that the output has one
\* entry per run that is long enough
C3_MinimumDuration ==
    CompileDone =>
        /\ \A k \in DOMAIN final_tracklist :
              final_tracklist[k].duration >= min_duration_seconds
        /\ \A g \in DOMAIN consolidated_tracks :
              GroupSpan(consolidated_tracks[g]) < min_duration_seconds =>
                  \A k \in DOMAIN final_tracklist :
                      final_tracklist[k].start # consolidated_tracks[g][1].timestamp
        /\ Len(final_tracklist) =
              Cardinality({g \in DOMAIN consolidated_tracks :
                  GroupSpan(consolidated_tracks[g]) >= min_duration_seconds})

\* a run of two identical recognitions, 60 s long, dropped under a minimum of 90 s
C3_Witness ==
    /\ CompileDone
    /\ results = <<Hit_A, Hit_A>>
    /\ min_duration_seconds = 90
    /\ Len(consolidated_tracks) = 1
    /\ Len(consolidated_tracks[1]) = 2
    /\ final_tracklist = <<>>

----------------------------------------------------------------------------
(* Properties of _sort_and_deduplicate_tracks *)

MergeDone == mode = "merge" /\ pc = "done"

\* the entries of the returned list
Merged == [k \in DOMAIN combined_results |-> track_heap[combined_results[k]]]

EntrySeconds(entry) == timestamp_seconds(entry.timestamp)

\* the comparison the merge makes: the later track against the earlier one
JudgedSimilar(later, earlier) ==
    are_tracks_similar(later, earlier, default_similarity_threshold)

\* of a list of two tracks, the one sorted() puts first and the other one
EarlierOfTwo ==
    IF EntrySeconds(tracks[2]) < EntrySeconds(tracks[1]) THEN tracks[2] ELSE tracks[1]

LaterOfTwo ==
    IF EntrySeconds(tracks[2]) < EntrySeconds(tracks[1]) THEN tracks[1] ELSE tracks[2]

HigherOfTwo ==
    IF tracks[1].confidence > tracks[2].confidence THEN tracks[1] ELSE tracks[2]

\* C4: two tracks judged similar, starting within window_size of each other,
\* with different confidences, give one entry: title, artist, confidence and
\* recognizer of the higher-confidence track, timestamp of the earlier track
C4_MergePrecedence ==
    (/\ MergeDone
     /\ Len(tracks) = 2
     /\ JudgedSimilar(LaterOfTwo, EarlierOfTwo)
     /\ EntrySeconds(LaterOfTwo) - EntrySeconds(EarlierOfTwo) <= window_size
     /\ tracks[1].confidence # tracks[2].confidence)
    => /\ Len(Merged) = 1
       /\ Merged[1].title = HigherOfTwo.title
       /\ Merged[1].artist = HigherOfTwo.artist
       /\ Merged[1].confidence = HigherOfTwo.confidence
       /\ Merged[1].recognizer = HigherOfTwo.recognizer
       /\ Merged[1].timestamp = EarlierOfTwo.timestamp

\* the later of the two tracks, 10 s after the earlier one, has the higher
\* confidence and another spelling of the title
C4_Witness ==
    /\ MergeDone
    /\ Len(tracks) = 2
    /\ tracks[1].title = Title_Ab /\ tracks[1].confidence = 60
    /\ tracks[1].timestamp = format_time(0)
    /\ tracks[2].title = Title_abc /\ tracks[2].confidence = 100
    /\ tracks[2].timestamp = format_time(10)
    /\ Len(Merged) = 1
    /\ Merged[1].title = Title_abc
    /\ Merged[1].recognizer = "shazam"
    /\ Merged[1].timestamp = format_time(0)

PairwiseDissimilar ==
    \A i, j \in DOMAIN tracks :
        i # j => ~JudgedSimilar(tracks[i], tracks[j])

\* C5: tracks that the comparator does not judge similar are all kept as
\* separate entries of the merged list, however close their start times are
C5_MergeIndependence ==
    (MergeDone /\ PairwiseDissimilar)
    => /\ Len(Merged) = Len(tracks)
       /\ \A i \in DOMAIN tracks : \E k \in DOMAIN Merged : Merged[k] = tracks[i]

\* two different songs from two backends, 10 s apart
C5_Witness ==
    /\ MergeDone
    /\ Len(tracks) = 2
    /\ tracks[1].title = Title_Ab /\ tracks[1].recognizer = "shazam"
    /\ tracks[1].timestamp = format_time(0)
    /\ tracks[2].title = Title_bc /\ tracks[2].recognizer = "acoustid"
    /\ tracks[2].timestamp = format_time(10)
    /\ Len(Merged) = 2
    /\ Merged[1] = tracks[1]
    /\ Merged[2] = tracks[2]

\* C6 as stated: each entry's timestamp is strictly greater than the timestamp
\* of the entry before it
C6_StrictlyOrderedAsStated ==
    MergeDone =>
        \A k \in DOMAIN Merged :
            k > 1 => EntrySeconds(Merged[k - 1]) < EntrySeconds(Merged[k])

\* C6 amended: the combined tracklist is ordered by timestamp, each entry's
\* timestamp being greater than or equal to that of the entry before it
C6_OrderedByTimestamp ==
    MergeDone =>
        \A k \in DOMAIN Merged :
            k > 1 => EntrySeconds(Merged[k - 1]) <= EntrySeconds(Merged[k])

\* a list given out of order, returned in order with two entries at one time
C6_Witness ==
    /\ MergeDone
    /\ Len(tracks) = 3
    /\ EntrySeconds(tracks[1]) > EntrySeconds(tracks[2])
    /\ Len(Merged) = 3
    /\ EntrySeconds(Merged[1]) = EntrySeconds(Merged[2])
    /\ EntrySeconds(Merged[2]) < EntrySeconds(Merged[3])

\* C7: the combined tracklist holds no two adjacent entries whose timestamps
\* differ by at most 30 s and whose final title and artist are judged similar
C7_NoAdjacentDuplicates ==
    MergeDone =>
        \A k \in DOMAIN Merged :
            k > 1 =>
                ~(/\ EntrySeconds(Merged[k]) - EntrySeconds(Merged[k - 1]) <= window_size
                  /\ JudgedSimilar(Merged[k], Merged[k - 1]))

----------------------------------------------------------------------------
(* Properties of format_time and are_tracks_similar *)

FormatDone == mode = "format" /\ pc \in {"done", "done_inline"}

IsDigits(field) == \A i \in DOMAIN field : \E v \in 0..9 : DigitChars[v + 1] = field[i]

FormattedFields == SplitColon(formatted, 1, <<>>)

\* every field is made of digits and has two of them at least
PaddedFields ==
    \A k \in DOMAIN FormattedFields :
        IsDigits(FormattedFields[k]) /\ Len(FormattedFields[k]) >= 2

\* the display of a number of seconds below an hour: MM:SS
IsMMSS ==
    /\ Len(FormattedFields) = 2
    /\ Len(formatted) = 5
    /\ int(FormattedFields[1]) = arg_seconds \div 60
    /\ int(FormattedFields[2]) = arg_seconds % 60

\* the display from an hour on: hours, minutes and seconds
IsHMS ==
    /\ Len(FormattedFields) = 3
    /\ Len(FormattedFields[2]) = 2
    /\ Len(FormattedFields[3]) = 2
    /\ int(FormattedFields[1]) = arg_seconds \div 3600
    /\ int(FormattedFields[2]) = (arg_seconds \div 60) % 60
    /\ int(FormattedFields[3]) = arg_seconds % 60

Examples ==
    /\ arg_seconds = 90 => formatted = <<"0", "1", ":", "3", "0">>
    /\ arg_seconds = 3661 =>
          formatted = <<"0", "1", ":", "0", "1", ":", "0", "1">>

SimilarDone == mode = "similar" /\ pc = "done"

\* the track is missing, or its title or artist is missing or empty
LacksField(track) ==
    \/ track = PyNone
    \/ "title" \notin DOMAIN track
    \/ "artist" \notin DOMAIN track
    \/ track.title = <<>>
    \/ track.artist = <<>>

\* C10: are_tracks_similar returns false whenever either track is missing or
\* has a missing or empty title or artist, whatever the threshold is
C10_EmptyFieldsNeverSimilar ==
    (SimilarDone /\ (LacksField(arg_track1) \/ LacksField(arg_track2)))
        => similar = FALSE

\* at the threshold 0 two tracks with empty titles are compared and kept apart
C10_Witness ==
    /\ SimilarDone
    /\ arg_threshold = 0
    /\ arg_track1 = [title |-> <<>>, artist |-> Ar_x]
    /\ arg_track2 = [title |-> <<>>, artist |-> Ar_x]
    /\ similar = FALSE

----------------------------------------------------------------------------
(* Properties of the session *)

SessionDone == mode = "session" /\ pc = "done"

\* no backend contributed a track: each was skipped or returned an empty
\* list, so that the list handed to the merge is empty
NoContribution == tracks = <<>>

\* C8: consolidating raw results in which every chunk is unrecognised gives an
\* empty tracklist; and a session in which no backend contributes a track
\* ends with an empty combined tracklist and total_tracks = 0
C8_EmptyInput ==
    /\ (CompileDone /\ Recognised = {}) => final_tracklist = <<>>
    /\ (SessionDone /\ NoContribution) =>
          /\ session_result # PyNone
          /\ session_result.combined_results = <<>>
          /\ session_result.total_tracks = 0
          /\ combined_results = <<>>

\* a session of two backends, one skipped and one that returned no track
C8_Witness ==
    /\ SessionDone
    /\ Len(recognizer_types) = 2
    /\ Len(errors) = 1
    /\ Cardinality(DOMAIN all_results) = 1
    /\ NoContribution
    /\ all_results[recognizer_types[2]] = <<>>
    /\ session_result.total_tracks = 0

SessionOver == mode = "session" /\ pc \in {"done", "raised"}

\* C11: identify_tracks never raises past its own boundary: whatever the
\* backends do, the call ends with the session record as its result
C11_NeverRaises ==
    SessionOver =>
        /\ pc = "done"
        /\ session_result # PyNone
        /\ DOMAIN session_result = {"recognizers_used", "individual_results",
                                    "combined_results", "errors", "total_tracks"}

\* download_audio or split_audio of the running recognizer has raised: the
\* recognizer's identify_tracks is left before any chunk was recognised
AcquisitionFails ==
    /\ mode = "session"
    /\ pc \in {"download", "split"}
    /\ pc' = "loop"

\* C12: when download_audio or split_audio fails the whole session is aborted:
\* the failing step records an error in the session's errors, no further
\* recognizer is run after it (the loop over the requested types is over) and
\* no tracklist is stored for the session.
C12_AcquisitionFailureAborts ==
    [][AcquisitionFails =>
          /\ Len(errors') = Len(errors) + 1
          /\ type_index' > Len(recognizer_types)
          /\ recognizer_type \notin DOMAIN all_results']_vars

\* the requested type at type_index is given up in the manager's loop without
\* a recognizer having run: the factory returned None for it
NotConstructed ==
    /\ mode = "session"
    /\ pc = "loop"
    /\ pc' = "loop"
    /\ type_index <= Len(recognizer_types)
    /\ type_index' = type_index + 1

ErrorsNaming(name) == {k \in DOMAIN errors : errors[k].recognizer_type = name}

Requested(name) == {k \in DOMAIN recognizer_types : recognizer_types[k] = name}

\* C13: when a requested recognizer cannot be constructed (unknown name, or
\* its constructor raises), that step appends exactly one error naming the
\* recognizer to errors and leaves individual_results as it was; the loop goes
\* on to the next requested type, so that when the session is over every
\* requested type has either an entry in individual_results or an error, an
\* unregistered name has no entry and one error per request; the session is
\* over only once the merge has been called.
C13_UnavailableBackendSkipped ==
    /\ [][NotConstructed =>
             /\ errors' = Append(errors, [error |-> "No se pudo crear el reconocedor",
                                          recognizer_type |-> recognizer_type])
             /\ all_results' = all_results]_vars
    /\ [](SessionOver =>
             /\ type_index = Len(recognizer_types) + 1
             /\ \A k \in DOMAIN recognizer_types :
                    LET name == recognizer_types[k]
                    IN  /\ name \in DOMAIN all_results \/ ErrorsNaming(name) # {}
                        /\ lower_name(name) \notin DOMAIN recognizers =>
                               /\ name \notin DOMAIN all_results
                               /\ Cardinality(ErrorsNaming(name)) =
                                      Cardinality(Requested(name)))

C13_Witness ==
    /\ mode = "session"
    /\ pc = "done"
    /\ recognizer_types = <<"nope", "shazam">>
    /\ Len(errors) = 1
    /\ errors[1].recognizer_type = "nope"
    /\ DOMAIN all_results = {"shazam"}
    /\ session_result.total_tracks = 1

\* the recognizer's loop over the chunks is left
RecognitionLeft ==
    /\ mode = "session"
    /\ pc = "recognize"
    /\ pc' # "recognize"

\* C14: a failure while recognising one chunk becomes a None result for that
\* chunk only and the backend goes on with the later chunks: whenever the loop
\* over the chunks is left, the results list holds exactly one entry per
\* chunk.
C14_OneResultPerChunk ==
    [][RecognitionLeft => Len(recognizer_results) = chunks]_vars

\* C15: the retries of recognize_chunk for one chunk are bounded by
\* max_retries, also when every attempt ends in a connection error.
C15_RetriesBounded ==
    mode = "session" => retries <= max_retries

\* the merge of line 113 has run and identify_tracks returns
MergeReturns ==
    /\ mode = "session"
    /\ pc = "loop"
    /\ pc' = "done"

\* C16: the merge never mutates a backend's output: every track stored in
\* individual_results has after the merge the fields and the values it had
\* when its backend returned it and the manager stored it.
C16_BackendOutputUntouched ==
    [][MergeReturns =>
          \A b \in DOMAIN all_results :
             \A k \in DOMAIN all_results[b] :
                track_heap'[all_results[b][k]] = track_heap[all_results[b][k]]]_vars

\* a call of register_recognizer returns
Registered ==
    /\ mode = "registry"
    /\ pc' = "registered"

\* C17: after register_recognizer(name, cls) with cls a subclass of
\* BaseRecognizer the available recognizers contain the lower-cased name,
\* get_recognizer of the name in any letter case builds an instance of cls and
\* every other registered name is left as it was; with a class that is not a
\* subclass the registry is unchanged; get_recognizer of a name that is not
\* registered returns None.
C17_Registry ==
    /\ [][Registered =>
             IF issubclass(arg_recognizer_class')
             THEN /\ lower_name(arg_name') \in get_available_recognizers'
                  /\ \A name \in RegistryNames :
                         lower_name(name) = lower_name(arg_name') =>
                            /\ get_recognizer(name, FALSE)' # PyNone
                            /\ get_recognizer(name, FALSE)'.name = arg_recognizer_class'
                  /\ \A other \in DOMAIN recognizers \ {lower_name(arg_name')} :
                         /\ other \in DOMAIN recognizers'
                         /\ recognizers'[other] = recognizers[other]
                  /\ DOMAIN recognizers' = DOMAIN recognizers \cup {lower_name(arg_name')}
             ELSE recognizers' = recognizers]_vars
    /\ [](mode = "registry" /\ pc = "got" =>
             IF lower_name(arg_name) \in DOMAIN recognizers
             THEN recognizer # PyNone => recognizer.name = recognizers[lower_name(arg_name)]
             ELSE recognizer = PyNone)

C17_Witness ==
    /\ mode = "registry"
    /\ pc = "got"
    /\ arg_name = "MINE"
    /\ recognizer # PyNone
    /\ recognizer.name = "MyRecognizer"
    /\ recognizers["shazam"] = "ShazamRecognizer"
    /\ "nope" \notin DOMAIN recognizers

RECURSIVE Flatten(_)
\* the members of the groups, in order
Flatten(groups) ==
    IF groups = <<>> THEN <<>> ELSE Head(groups) \o Flatten(Tail(groups))

\* the number of chunks between two recognitions
ChunksBetween(earlier, later) == later.chunk_index - earlier.chunk_index - 1

\* the recognition could extend the run: tolerated gap after the run's last
\* member and similar to the run's first member
AnchoredTo(run, track) ==
    /\ ChunksBetween(run[Len(run)], track) <= max_interruption_chunks
    /\ are_tracks_similar_script(track, run[1])

\* C18: anchoring in compile_tracklist: the runs are the recognitions in
\* order; a recognition extends the current run if and only if the number of
\* chunks between it and the run's last member is at most
\* max_interruption_chunks and it is similar to the run's first member, and
\* starts a new run otherwise, so every later member of a run is similar to the
\* run's first member.
C18_Anchoring ==
    CompileDone =>
        /\ Flatten(consolidated_tracks) = raw_tracks_from(results, 1, chunk_duration)
        /\ \A i \in DOMAIN consolidated_tracks :
              LET run == consolidated_tracks[i]
              IN  /\ run # <<>>
                  /\ \A k \in 2..Len(run) :
                         /\ AnchoredTo(SubSeq(run, 1, k - 1), run[k])
                         /\ are_tracks_similar_script(run[k], run[1])
                  /\ i < Len(consolidated_tracks) =>
                         ~AnchoredTo(run, consolidated_tracks[i + 1][1])

\* "bc" follows "Ab", "abc": similar to the run's last member but not to its
\* first, it starts a new run
C18_Witness ==
    /\ CompileDone
    /\ results = <<Hit_A, ShazamHit(Song_A2), ShazamHit(Song_A3)>>
    /\ Len(consolidated_tracks) = 2
    /\ Len(consolidated_tracks[1]) = 2
    /\ are_tracks_similar_script(consolidated_tracks[2][1], consolidated_tracks[1][2])

\* C19: the spans compile_tracklist returns have end > start, strictly
\* increasing starts and do not overlap: each span ends at or before the start
\* of the next one.
C19_SpansOrdered ==
    CompileDone =>
        \A k \in DOMAIN final_tracklist :
           /\ final_tracklist[k]["end"] > final_tracklist[k]["start"]
           /\ k < Len(final_tracklist) =>
                  /\ final_tracklist[k]["start"] < final_tracklist[k + 1]["start"]
                  /\ final_tracklist[k]["end"] <= final_tracklist[k + 1]["start"]

\* two spans, the second starting where the first ends
C19_Witness ==
    /\ CompileDone
    /\ Len(final_tracklist) = 2
    /\ final_tracklist[1]["end"] = final_tracklist[2]["start"]

\* title and artist of the raw result of a chunk, as its backend reports them
RawTitleArtist(result) ==
    IF "track" \in DOMAIN result
    THEN <<result.track.title, result.track.subtitle>>
    ELSE <<result.title, result.artist>>

\* process_results of the running recognizer returns
ProcessResultsReturns ==
    /\ mode = "session"
    /\ pc = "recognize"
    /\ pc' = "loop"
    /\ Len(recognizer_results) = chunks

\* C20: the title and artist of a consolidated track are those of the first
\* member of its run, the recognition of the chunk the track starts at: in
\* the spans of compile_tracklist and in the tracks every recognizer's
\* process_results returns; later members of the run do not replace them.
C20_FirstMemberRepresents ==
    /\ [](CompileDone =>
             \A k \in DOMAIN final_tracklist :
                LET entry == final_tracklist[k]
                    first == results[entry["start"] \div chunk_duration + 1]
                IN  <<entry.track.title, entry.track.artist>> = RawTitleArtist(first))
    /\ [][ProcessResultsReturns =>
             \A id \in (Len(track_heap) + 1)..Len(track_heap') :
                LET track == track_heap'[id]
                    first == recognizer_results[
                                 timestamp_seconds(track.timestamp)
                                     \div recognizer.chunk_duration + 1]
                IN  <<track.title, track.artist>> = RawTitleArtist(first)]_vars

\* a span of compile_tracklist whose run goes on with another spelling
C20_Witness ==
    /\ CompileDone
    /\ results = <<Hit_A, ShazamHit(Song_A2), ShazamHit(Song_A2)>>
    /\ Len(final_tracklist) = 1
    /\ final_tracklist[1].track.title = Title_Ab
    /\ final_tracklist[1]["end"] = 3 * chunk_duration

\* the raw recognition of a chunk is taken into the recognizer's raw tracks
TakenAsRawTrack(result) ==
    CASE recognizer.name = "ShazamRecognizer" -> shazam_guard(result)
      [] recognizer.name = "AcoustIDRecognizer" -> acoustid_guard(result)
      [] OTHER -> executable_guard(result)

\* the confidence of a raw recognition, as its recognizer reads it
RawConfidence(result) ==
    CASE recognizer.name = "ShazamRecognizer" -> 100
      [] recognizer.name = "AcoustIDRecognizer" -> Get(result, "score", Float(50)).float
      [] OTHER -> result.confidence

\* the chunk (1-based position in the results) a returned track starts at
StartChunk(track) ==
    timestamp_seconds(track.timestamp) \div recognizer.chunk_duration + 1

\* C21: the confidence of a consolidated track returned by process_results is
\* the maximum confidence over the raw recognitions grouped into it, which
\* are the recognitions from the chunk the track starts at up to the chunk
\* before the next returned track starts (of a single recognition, its own
\* confidence, whatever value it is).
C21_ConfidenceIsMaximum ==
    [][ProcessResultsReturns =>
          \A id \in (Len(track_heap) + 1)..Len(track_heap') :
             LET track == track_heap'[id]
                 next_start == IF id < Len(track_heap')
                               THEN StartChunk(track_heap'[id + 1])
                               ELSE chunks + 1
                 members == {i \in StartChunk(track)..(next_start - 1) :
                                TakenAsRawTrack(recognizer_results[i])}
             IN  IF members = {StartChunk(track)}
                 THEN ToString(track.confidence) =
                          ToString(RawConfidence(recognizer_results[StartChunk(track)]))
                 ELSE track.confidence =
                          Max({RawConfidence(recognizer_results[i]) : i \in members})]_vars

\* an AcoustID track whose second member has the higher score
C21_Witness ==
    /\ mode = "session"
    /\ pc = "loop"
    /\ recognizer_types = <<"ACOUSTID">>
    /\ type_index = 2
    /\ Len(track_heap) = 1
    /\ track_heap[1].title = Title_abc
    /\ track_heap[1].confidence = 90

\* min_duration_seconds of the consolidation, by default
default_min_duration_seconds == 60

\* C22: process_results of the recognizers discards candidate spans shorter
\* than min_duration_seconds: every track it returns covers, from the chunk
\* it starts at to the end of the last chunk grouped into it, at least 60
\* seconds.
C22_ShortSpansDiscarded ==
    [][ProcessResultsReturns =>
          \A id \in (Len(track_heap) + 1)..Len(track_heap') :
             LET track == track_heap'[id]
                 next_start == IF id < Len(track_heap')
                               THEN StartChunk(track_heap'[id + 1])
                               ELSE chunks + 1
                 members == {i \in StartChunk(track)..(next_start - 1) :
                                TakenAsRawTrack(recognizer_results[i])}
             IN  (Max(members) - StartChunk(track) + 1) * recognizer.chunk_duration
                     >= default_min_duration_seconds]_vars

\* the run of the current recognizer ends with an exception: of
\* download_audio, of split_audio, out of recognize_chunk or of process_results
BackendRunRaises ==
    /\ mode = "session"
    /\ pc \in {"download", "split", "recognize"}
    /\ pc' = "loop"
    /\ pc = "recognize" =>
          \/ Len(recognizer_results) < chunks
          \/ process_raises(recognizer.name, recognizer_results)

\* C23: every exception raised inside a backend's run is caught, appears as
\* an entry of the session's errors and results in no tracks from that
\* backend.
C23_BackendExceptionsRecorded ==
    [][BackendRunRaises =>
          /\ Len(track_heap') = Len(track_heap)
          /\ Len(errors') = Len(errors) + 1]_vars

\* the raw recognition of a chunk gives a title, an artist and a confidence
\* that is a number
GivesRecord(result) ==
    /\ TakenAsRawTrack(result)
    /\ CASE recognizer.name = "ShazamRecognizer" -> "subtitle" \in DOMAIN result.track
         [] recognizer.name = "AcoustIDRecognizer" ->
                ~IsNone(Get(result, "score", Float(50)))
         [] OTHER -> /\ {"title", "artist", "confidence"} \subseteq DOMAIN result
                     /\ ~IsNone(result.confidence)

\* C24: a response for one chunk that cannot be turned into a (title, artist,
\* confidence) record counts as no match for that chunk only: when another
\* chunk of the backend's run was recognised, process_results still returns
\* tracks.
C24_MalformedOutputIsNoMatch ==
    [][ProcessResultsReturns
          /\ (\E i \in DOMAIN recognizer_results : GivesRecord(recognizer_results[i]))
          => Len(track_heap') > Len(track_heap)]_vars

BatchOver == mode = "batch" /\ pc = "done"

\* C25: in the batched pipeline, whatever order the recognitions of a group
\* resolve in, retries included, results[i] is the outcome of chunk i: at
\* every moment the results list holds the outcomes of the first chunks in
\* chunk order, and compile_tracklist receives one result per chunk.
C25_ResultsInChunkOrder ==
    mode = "batch" =>
        /\ \A k \in DOMAIN task_state :
              k < Len(results) =>
                 /\ task_state[k].status = "resolved"
                 /\ results[k + 1] = task_state[k].result
        /\ BatchOver => Len(results) = chunk_count

\* the recognitions of the second group resolved in the order 4, 3 and the
\* results are in chunk order all the same
C25_Witness ==
    /\ BatchOver
    /\ chunk_count = 5
    /\ completed = <<4, 3>>
    /\ results = <<Hit_A, PyNone, ShazamMiss, Hit_A, PyNone>>

\* the chunks whose recognition is outstanding
Outstanding == {k \in DOMAIN task_state : task_state[k].status = "running"}

\* the number of groups the chunks are cut into
GroupCount == (chunk_count + chunk_size - 1) \div chunk_size

\* C26: in the batched pipeline at most 3 recognitions are outstanding at any
\* time; while a recognition of a group is outstanding every recognition of
\* the earlier groups has resolved and none of a later group has started;
\* one pause has been made before each group but the first, and none after
\* the last group.
C26_BoundedOutstanding ==
    mode = "batch" =>
        /\ Cardinality(Outstanding) <= 3
        /\ Outstanding # {} =>
              /\ Outstanding \subseteq chunk_group(group_start)
              /\ \A k \in DOMAIN task_state :
                    /\ k < group_start => task_state[k].status = "resolved"
                    /\ k >= group_start + chunk_size => task_state[k].status = "created"
        /\ group_start < chunk_count => pauses = group_start \div chunk_size
        /\ (group_start >= chunk_count /\ chunk_count > 0) => pauses = GroupCount - 1

\* both recognitions of the second group outstanding, after one pause
C26_Witness ==
    /\ mode = "batch"
    /\ chunk_count = 5
    /\ group_start = 3
    /\ Outstanding = {3, 4}
    /\ pauses = 1

\* a recognizer starts its run: its download_audio is called
AcquisitionStarts ==
    /\ mode = "session"
    /\ pc = "loop"
    /\ pc' = "download"

\* C27: a session passes through Acquiring, Segmenting, Recognizing (once per
\* backend), Consolidating, Merging, Done in this order: the audio is acquired
\* once, before any backend has run, and the consolidation (process_results)
\* of a backend starts only when the recognition of all backends has ended,
\* that is, in the run of the last requested backend.
C27_PhaseOrder ==
    [][/\ AcquisitionStarts => all_results = EmptyDict
       /\ ProcessResultsReturns => type_index = Len(recognizer_types)]_vars

\* C28: timestamp round trip between the recognizers and the merge: for every
\* non-negative number of seconds s, the seconds that
\* _sort_and_deduplicate_tracks parses from the string a recognizer (or
\* format_time) formatted for s are s again.
C28_TimestampRoundTrip ==
    FormatDone => timestamp_seconds(formatted) = arg_seconds

\* a recognizer's timestamp of more than an hour, parsed back
C28_Witness ==
    /\ mode = "format"
    /\ pc = "done_inline"
    /\ arg_seconds = 3661
    /\ Len(SplitColon(formatted, 1, <<>>)) = 3
    /\ timestamp_seconds(formatted) = 3661
----------------------------------------------------------------------------
(* The candidates of a merged entry *)

\* the start times of the tracks given to the merge, by list position
TrackSeconds == [i \in DOMAIN tracks |-> EntrySeconds(tracks[i])]

\* tracks[i] comes before tracks[j] in the order of the merge: by timestamp,
\* and in the order of the backends when the timestamps are equal
ComesBefore(seconds, i, j) ==
    \/ seconds[i] < seconds[j]
    \/ seconds[i] = seconds[j] /\ i < j

\* the candidates folded into the entry that was opened by tracks[c]: tracks[c]
\* and the tracks not returned that come after it and before the next entry
FoldedInto(seconds, c) ==
    {c} \cup {j \in DOMAIN tracks \ Range(combined_results) :
                /\ ComesBefore(seconds, c, j)
                /\ ~\E d \in Range(combined_results) :
                       ComesBefore(seconds, c, d) /\ ComesBefore(seconds, d, j)}

\* the first of the candidates that has the confidence highest
FirstWith(seconds, candidates, highest) ==
    CHOOSE j \in candidates :
        /\ tracks[j].confidence = highest
        /\ \A i \in candidates :
               tracks[i].confidence = highest /\ i # j => ComesBefore(seconds, j, i)

\* C29: every merged entry keeps the highest confidence of the candidates
\* folded into it, and the title, artist and recognizer of the first candidate
\* (by timestamp, then by backend order) that has this confidence; a later
\* candidate of equal confidence does not replace the identification
C29_FirstMaximumRetained ==
    MergeDone =>
        LET seconds == TrackSeconds
        IN  \A k \in DOMAIN combined_results :
                LET candidates == FoldedInto(seconds, combined_results[k])
                    highest == Max({tracks[j].confidence : j \in candidates})
                    first == tracks[FirstWith(seconds, candidates, highest)]
                IN  /\ Merged[k].confidence = highest
                    /\ Merged[k].title = first.title
                    /\ Merged[k].artist = first.artist
                    /\ Merged[k].recognizer = first.recognizer

\* three candidates of one entry: the second raises the confidence, the third
\* has the same confidence as the second and another spelling of the title
C29_Witness ==
    /\ MergeDone
    /\ Len(tracks) = 3
    /\ tracks[1].title = Title_Ab /\ tracks[1].confidence = 60
    /\ tracks[1].timestamp = format_time(0)
    /\ tracks[2].title = Title_abc /\ tracks[2].confidence = 100
    /\ tracks[2].timestamp = format_time(10)
    /\ tracks[3].title = Title_bc /\ tracks[3].confidence = 100
    /\ tracks[3].timestamp = format_time(10)
    /\ Len(Merged) = 1
    /\ FoldedInto(TrackSeconds, 1) = {1, 2, 3}
    /\ Merged[1].title = Title_abc
    /\ Merged[1].confidence = 100

----------------------------------------------------------------------------
(* The recognizer recorded on a merged entry *)

\* C30: in every session returned by identify_tracks, the recognizer recorded
\* on each entry of combined_results is one of the names in recognizers_used,
\* and this name is a key of individual_results whose list holds the entry
C30_RecognizerIsRequestedName ==
    SessionDone =>
        \A k \in DOMAIN session_result.combined_results :
            LET entry == session_result.combined_results[k]
                name == track_heap[entry].recognizer
            IN  /\ name \in Range(session_result.recognizers_used)
                /\ name \in DOMAIN session_result.individual_results
                /\ entry \in Range(session_result.individual_results[name])

====
